---- MODULE Spec2Model ----
(***************************************************************************)
(* Model of the fxexport table builders of DaniPopes/tracy:                *)
(*   StringTable   (fxexport/src/string_table.hpp)                         *)
(*   LibTable      (fxexport/src/lib_table.hpp)                            *)
(*   ThreadTables  (fxexport/src/thread_tables.cpp)                        *)
(*                                                                         *)
(* Value representations                                                   *)
(*   uint64_t  : a tuple <<w3, w2, w1, w0>> of four 16-bit limbs, w3 the   *)
(*               most significant (bits 48..63).  All 64-bit arithmetic    *)
(*               (xor, add with wrap-around, compare, sign bit, negate)    *)
(*               is done on the limbs, so the full width is kept.          *)
(*   int64_t address (FrameEntry::address) : [neg, mag] with mag a uint64  *)
(*               magnitude, the value of the two's complement cast.        *)
(*   double ms : [ms, frac]: the decimal ns / 10^6 that names the double,  *)
(*               the whole milliseconds and the remaining nanoseconds      *)
(*               (0..999999); arithmetic on doubles is done on binary64    *)
(*               records [neg, hi, lo, e] with round-to-nearest-even.      *)
(*   const char* : a string; NullPtr stands for the null pointer.          *)
(*   std::unordered_map : a function whose DOMAIN is the set of keys.      *)
(***************************************************************************)
EXTENDS Integers, Sequences, FiniteSets, TLC

\* ------------------------------------------------------------------------
\* Bounds of the model
\* ------------------------------------------------------------------------
\* samples handed to one thread builder (td.samples), in total
MaxSamples == 2
\* memory events handed to one thread builder, in total
MaxEvents == 1
\* thread builders constructed for one document
MaxThreads == 2
\* calls of the table primitives in the unit harness (SpecTables)
MaxCalls == 3

\* ------------------------------------------------------------------------
\* 64-bit unsigned arithmetic on 16-bit limbs
\* ------------------------------------------------------------------------
Limb == 2^16

U64Zero == <<0, 0, 0, 0>>

\* a < b for uint64_t
U64Less(a, b) ==
    \/ a[1] < b[1]
    \/ a[1] = b[1] /\ a[2] < b[2]
    \/ a[1] = b[1] /\ a[2] = b[2] /\ a[3] < b[3]
    \/ a[1] = b[1] /\ a[2] = b[2] /\ a[3] = b[3] /\ a[4] < b[4]

\* a + n for uint64_t a and uint32_t n, wrapping modulo 2^64
U64Add32(a, n) ==
    LET s0 == a[4] + (n % Limb)
        s1 == a[3] + (n \div Limb) + (s0 \div Limb)
        s2 == a[2] + (s1 \div Limb)
        s3 == a[1] + (s2 \div Limb)
    IN  <<s3 % Limb, s2 % Limb, s1 % Limb, s0 % Limb>>

\* bitwise exclusive or of two n-bit naturals
RECURSIVE XorBits(_, _, _)
XorBits(a, b, n) ==
    IF n = 0 THEN 0
    ELSE (((a % 2) + (b % 2)) % 2) + 2 * XorBits(a \div 2, b \div 2, n - 1)

\* common.hpp: is_kernel_address
is_kernel_address(addr) == (addr[1] \div 2^15) # 0

\* static_cast<int64_t>(uint64_t): two's complement reinterpretation
U64Neg(a) ==
    U64Add32(<<Limb - 1 - a[1], Limb - 1 - a[2], Limb - 1 - a[3], Limb - 1 - a[4]>>, 1)

ToInt64(a) ==
    IF a[1] >= 2^15 THEN [neg |-> TRUE, mag |-> U64Neg(a)]
    ELSE [neg |-> FALSE, mag |-> a]

\* static_cast<uint64_t>(int64_t)
ToUint64(i) == IF i.neg THEN U64Neg(i.mag) ELSE i.mag

\* common.hpp: ns_to_ms
ns_to_ms(ns) == [ms |-> ns \div 1000000, frac |-> ns % 1000000]

\* ---- IEEE 754 binary64 arithmetic (round to nearest, ties to even) ----
\* A double is [neg, hi, lo, e]: the value (-1)^neg * (hi * 2^28 + lo) * 2^e
\* with a 53-bit significand (2^24 <= hi < 2^25, lo < 2^28), or zero
\* (hi = lo = 0, e = 0).  The values of the model stay far from the
\* subnormal and overflow ranges.  A working significand w = <<hi, lo>>
\* has 56 bits (three guard bits), held in two 28-bit halves.
B28 == 2^28

\* the element of a one-element set: The({e(v) : v \in {x}}) is e(x), with
\* x worked out once however often e uses it
The(S) == CHOOSE v \in S : TRUE

DoubleZero == [neg |-> FALSE, hi |-> 0, lo |-> 0, e |-> 0]

WZero == <<0, 0>>

WLess(a, b) == a[1] < b[1] \/ (a[1] = b[1] /\ a[2] < b[2])

WAdd(a, b) == <<a[1] + b[1] + ((a[2] + b[2]) \div B28), (a[2] + b[2]) % B28>>

\* a - b for a >= b
WSub(a, b) ==
    IF a[2] < b[2] THEN <<a[1] - b[1] - 1, a[2] - b[2] + B28>>
    ELSE <<a[1] - b[1], a[2] - b[2]>>

WShl1(w) == <<2 * w[1] + ((2 * w[2]) \div B28), (2 * w[2]) % B28>>

\* the lowest bit set when it is not
WSticky(w) == IF w[2] % 2 = 0 THEN <<w[1], w[2] + 1>> ELSE w

\* shift right by one bit, a bit shifted out kept as a sticky lowest bit
WShr1(w) ==
    LET r == <<w[1] \div 2, (w[1] % 2) * (B28 \div 2) + (w[2] \div 2)>>
    IN  IF w[2] % 2 = 1 THEN WSticky(r) ELSE r

\* shift left and right by eight bits, bits shifted out to the right kept
\* as a sticky lowest bit
WShl8(w) == <<256 * w[1] + (w[2] \div (B28 \div 256)), (w[2] % (B28 \div 256)) * 256>>

WShr8(w) ==
    LET r == <<w[1] \div 256, (w[1] % 256) * (B28 \div 256) + (w[2] \div 256)>>
    IN  IF w[2] % 256 # 0 THEN WSticky(r) ELSE r

\* shift right by d bits, in steps of eight bits and then of one bit
WShr(w, d) ==
    LET shr[a \in Seq(Nat), k \in Nat] ==
            IF k = 0 \/ a = WZero THEN a
            ELSE IF a = <<0, 1>> THEN a
            ELSE IF k >= 8 THEN shr[WShr8(a), k - 8]
            ELSE shr[WShr1(a), k - 1]
    IN  shr[w, d]

\* w * 2^e brought to 56 bits: the top bit of w is bit 55
WNormalize(w, e) ==
    LET norm[a \in Seq(Nat), x \in Int] ==
            IF a[1] >= B28 THEN norm[WShr1(a), x + 1]
            ELSE IF a[1] < B28 \div 256 THEN norm[WShl8(a), x - 8]
            ELSE IF a[1] < B28 \div 2 THEN norm[WShl1(a), x - 1]
            ELSE [w |-> a, e |-> x]
    IN  norm[w, e]

\* the double nearest to a normalized w * 2^e, ties to even
RoundNormalized(neg, n) ==
    LET guard == n.w[2] % 8
        hi    == n.w[1] \div 8
        lo    == (n.w[1] % 8) * (B28 \div 8) + (n.w[2] \div 8)
        up    == guard > 4 \/ (guard = 4 /\ lo % 2 = 1)
        lo1   == IF up THEN (lo + 1) % B28 ELSE lo
        hi1   == IF up /\ lo + 1 = B28 THEN hi + 1 ELSE hi
    IN  IF hi1 = B28 \div 8
        THEN [neg |-> neg, hi |-> B28 \div 16, lo |-> 0, e |-> n.e + 4]
        ELSE [neg |-> neg, hi |-> hi1, lo |-> lo1, e |-> n.e + 3]

\* the double nearest to (-1)^neg * w * 2^e
RoundW(neg, w, e) ==
    IF w = WZero THEN DoubleZero ELSE RoundNormalized(neg, WNormalize(w, e))

\* the significand of a double with three guard bits
ToW(x) == <<x.hi * 8 + (x.lo \div (B28 \div 8)), (x.lo % (B28 \div 8)) * 8>>

\* big + small for nonzero doubles with big.e >= small.e
DoubleAddAligned(big, small) ==
    LET a == ToW(big)
        b == WShr(ToW(small), big.e - small.e)
    IN  IF big.neg = small.neg THEN RoundW(big.neg, WAdd(a, b), big.e - 3)
        ELSE IF a = b THEN DoubleZero
        ELSE IF WLess(a, b) THEN RoundW(small.neg, WSub(b, a), big.e - 3)
        ELSE RoundW(big.neg, WSub(a, b), big.e - 3)

\* operator+ on double
DoubleAdd(x, y) ==
    IF x.hi = 0 /\ x.lo = 0 THEN y
    ELSE IF y.hi = 0 /\ y.lo = 0 THEN x
    ELSE IF x.e >= y.e THEN DoubleAddAligned(x, y)
    ELSE DoubleAddAligned(y, x)

DoubleNeg(x) == IF x.hi = 0 /\ x.lo = 0 THEN x ELSE [x EXCEPT !.neg = ~@]

\* operator- on double
DoubleSub(x, y) == DoubleAdd(x, DoubleNeg(y))

\* operator/ on double for nonzero y: the quotient of the significands,
\* one bit a step until it has 56 bits, what is left of the remainder kept
\* as a sticky bit
DoubleDiv(x, y) ==
    LET b == <<y.hi, y.lo>>
        div[q \in Seq(Nat), r \in Seq(Nat), n \in Nat] ==
            IF q[1] >= B28 \div 2
            THEN [w |-> IF r # WZero THEN WSticky(q) ELSE q,
                  e |-> x.e - y.e - (n - 1)]
            ELSE IF WLess(r, b)
            THEN div[WShl1(q), WShl1(r), n + 1]
            ELSE div[WAdd(WShl1(q), <<0, 1>>), WShl1(WSub(r, b)), n + 1]
    IN  IF x.hi = 0 /\ x.lo = 0 THEN DoubleZero
        ELSE RoundNormalized(x.neg # y.neg, div[WZero, <<x.hi, x.lo>>, 0])

\* the binary expansion of (w + r / 10^6) * 2^e continued, eight bits or
\* one bit at a time, until w has 56 bits; what is left of r is kept as a
\* sticky bit
DivBits(w, r, e) ==
    LET div[a \in Seq(Nat), q \in Nat, x \in Int] ==
            IF a[1] >= B28 \div 2
            THEN [w |-> IF q # 0 THEN WSticky(a) ELSE a, e |-> x]
            ELSE IF a[1] < B28 \div 256
            THEN div[WAdd(WShl8(a), <<0, (256 * q) \div 1000000>>),
                     (256 * q) % 1000000, x - 8]
            ELSE div[WAdd(WShl1(a), <<0, (2 * q) \div 1000000>>),
                     (2 * q) % 1000000, x - 1]
    IN  div[w, r, e]

\* static_cast<double>(ns) / 1e6 for |ns| < 2^31: the double nearest to the
\* quotient (both operands are exact doubles)
DoubleOfMs(ns) ==
    LET n == IF ns < 0 THEN 0 - ns ELSE ns
    IN  IF n = 0 THEN DoubleZero
        ELSE RoundNormalized(ns < 0, DivBits(<<0, n \div 1000000>>, n % 1000000, 0))

\* common.hpp: ns_to_ms.  A time column holds the double by the decimal it
\* was rounded from, [ms, frac] = ms + frac / 10^6 (distinct decimals give
\* distinct doubles, in the same order); Binary64 is the double itself.
Binary64(t) == The({DoubleOfMs(ns) : ns \in {t.ms * 1000000 + t.frac}})

\* s.time - prevTime on doubles
MsSub(a, b) == The({DoubleSub(x, y) : x \in {Binary64(a)}, y \in {Binary64(b)}})

MsLess(a, b) == a.ms < b.ms \/ (a.ms = b.ms /\ a.frac < b.frac)

MsZero == [ms |-> 0, frac |-> 0]

\* ------------------------------------------------------------------------
\* StringTable (string_table.hpp)
\* ------------------------------------------------------------------------
NullPtr == "<nullptr>"

EmptyStringTable == [m_strings |-> <<>>, m_map |-> <<>>]

\* intern that appends the string but does not record it in m_map
StringTable_intern_mut(st, s) ==
    IF s \in DOMAIN st.m_map
    THEN [st |-> st, ret |-> st.m_map[s]]
    ELSE LET idx == Len(st.m_strings)
         IN  [st  |-> [m_strings |-> Append(st.m_strings, s),
                       m_map     |-> st.m_map],
              ret |-> idx]

\* StringTable::intern(const std::string&); indices are 0-based as in the code
StringTable_intern(st, s) ==
    IF s \in DOMAIN st.m_map
    THEN [st |-> st, ret |-> st.m_map[s]]
    ELSE LET idx == Len(st.m_strings)
         IN  [st  |-> [m_strings |-> Append(st.m_strings, s),
                       m_map     |-> st.m_map @@ (s :> idx)],
              ret |-> idx]

\* StringTable::intern(const char*)
StringTable_intern_cstr(st, p) ==
    StringTable_intern(st, IF p = NullPtr THEN "" ELSE p)

\* ------------------------------------------------------------------------
\* LibTable (lib_table.hpp)
\* ------------------------------------------------------------------------
EmptyLibTable == [m_libs |-> <<>>, m_map |-> <<>>]

\* intern assigning end = addr + size on every later sight
LibTable_intern_mut(lt, name, addr, size) ==
    IF name = NullPtr \/ name = ""
    THEN [lt |-> lt, ret |-> -1]
    ELSE IF name \in DOMAIN lt.m_map
    THEN LET i   == lt.m_map[name]
             lib == lt.m_libs[i + 1]
             end == U64Add32(addr, size)
             s1  == IF lib.start = U64Zero \/ U64Less(addr, lib.start)
                    THEN addr ELSE lib.start
         IN  IF addr # U64Zero
             THEN [lt  |-> [lt EXCEPT !.m_libs[i + 1] =
                                [name |-> lib.name, start |-> s1, end |-> end]],
                   ret |-> i]
             ELSE [lt |-> lt, ret |-> i]
    ELSE LET idx == Len(lt.m_libs)
         IN  [lt  |-> [m_libs |-> Append(lt.m_libs,
                                     [name  |-> name,
                                      start |-> addr,
                                      end   |-> U64Add32(addr, size)]),
                       m_map  |-> lt.m_map @@ (name :> idx)],
              ret |-> idx]

\* LibTable::intern(const char* name, uint64_t addr = 0, uint32_t size = 0)
LibTable_intern(lt, name, addr, size) ==
    IF name = NullPtr \/ name = ""
    THEN [lt |-> lt, ret |-> -1]
    ELSE IF name \in DOMAIN lt.m_map
    THEN LET i   == lt.m_map[name]
             lib == lt.m_libs[i + 1]
             end == U64Add32(addr, size)
             s1  == IF lib.start = U64Zero \/ U64Less(addr, lib.start)
                    THEN addr ELSE lib.start
             e1  == IF U64Less(lib.end, end) THEN end ELSE lib.end
         IN  IF addr # U64Zero
             THEN [lt  |-> [lt EXCEPT !.m_libs[i + 1] =
                                [name |-> lib.name, start |-> s1, end |-> e1]],
                   ret |-> i]
             ELSE [lt |-> lt, ret |-> i]
    ELSE LET idx == Len(lt.m_libs)
         IN  [lt  |-> [m_libs |-> Append(lt.m_libs,
                                     [name  |-> name,
                                      start |-> addr,
                                      end   |-> U64Add32(addr, size)]),
                       m_map  |-> lt.m_map @@ (name :> idx)],
              ret |-> idx]

\* ------------------------------------------------------------------------
\* ThreadTables (thread_tables.hpp, thread_tables.cpp)
\* ------------------------------------------------------------------------
\* An int64_t that can hold INT64_MAX is [neg, mag]: the sign and the
\* magnitude on 16-bit limbs, as ToInt64 gives it.  The times of a trace
\* are integers of the model (nanoseconds below 2^31); Int64 widens one and
\* Int64Ns gives a widened time back.
Int64(n) ==
    [neg |-> n < 0,
     mag |-> <<0, 0, (IF n < 0 THEN -n ELSE n) \div Limb, (IF n < 0 THEN -n ELSE n) % Limb>>]

Int64Ns(i) == (IF i.neg THEN -1 ELSE 1) * (i.mag[3] * Limb + i.mag[4])

\* a < b for int64_t
Int64Less(a, b) ==
    IF a.neg # b.neg THEN a.neg
    ELSE IF a.neg THEN U64Less(b.mag, a.mag)
    ELSE U64Less(a.mag, b.mag)

\* std::min(a, b) for int64_t
Int64Min(a, b) == IF Int64Less(b, a) THEN b ELSE a

\* 2^63 - 1
INT64_MAX == [neg |-> FALSE, mag |-> <<Limb \div 2 - 1, Limb - 1, Limb - 1, Limb - 1>>]

\* a freshly constructed ThreadTables (thread_tables.hpp: member initialisers)
EmptyThreadTables ==
    [frames        |-> <<>>,
     funcs         |-> <<>>,
     nativeSymbols |-> <<>>,
     resources     |-> <<>>,
     stacks        |-> <<>>,
     samples       |-> <<>>,
     allocations   |-> <<>>,
     markers       |-> <<>>,
     minTime       |-> INT64_MAX,
     maxTime       |-> 0,
     symAddrToNativeSymbol |-> <<>>,
     symAddrToFunc         |-> <<>>,
     libNameToResource     |-> <<>>,
     frameKeyToFrame       |-> <<>>,
     stackKeyToStack       |-> <<>>]

Min(a, b) == IF b < a THEN b ELSE a
Max(a, b) == IF a < b THEN b ELSE a

\* A context c is the triple of objects the builder methods work on,
\* [st |-> StringTable, lt |-> LibTable, tt |-> ThreadTables]; a method
\* returns [c |-> the objects after the call, ret |-> its return value].
\* The statements of a method are composed through helper operators, each
\* taking the result of the statement before it.

IsSet(p) == p # NullPtr /\ p # ""

\* thread_tables.cpp:17-23  the miss branch of getOrCreateResource:
\* l is lt.intern(libName), n is st.intern(libName)
pushResource(c, key, l, n) ==
    [c |-> [st |-> n.st,
            lt |-> l.lt,
            tt |-> [c.tt EXCEPT
                      !.resources = Append(@, [libIdx |-> l.ret, nameIdx |-> n.ret]),
                      !.libNameToResource = @ @@ (key :> Len(c.tt.resources))]],
     ret |-> Len(c.tt.resources)]

\* ThreadTables::getOrCreateResource
getOrCreateResource(c, libName) ==
    LET key == IF libName = NullPtr THEN "" ELSE libName
    IN  IF key \in DOMAIN c.tt.libNameToResource
        THEN [c |-> c, ret |-> c.tt.libNameToResource[key]]
        ELSE pushResource(c, key,
                          LibTable_intern(c.lt, libName, U64Zero, 0),
                          StringTable_intern_cstr(c.st, libName))

\* if (imageName && imageName[0]) resourceIdx = getOrCreateResource(...),
\* else -1 (thread_tables.cpp:81-85 and 38-43)
resourceOfImage(c, imageName) ==
    IF IsSet(imageName) THEN getOrCreateResource(c, imageName)
    ELSE [c |-> c, ret |-> -1]

\* if (imageName && imageName[0]) lt.intern(imageName, symAddr, size)
\* (thread_tables.cpp:31-34 and 39-41)
widenLib(c, imageName, symAddr, size) ==
    IF IsSet(imageName)
    THEN [c EXCEPT !.lt = LibTable_intern(c.lt, imageName, symAddr, size).lt]
    ELSE c

\* thread_tables.cpp:45-53  the miss branch of getOrCreateNativeSymbol:
\* r is the result of the resource lookup, r.ret the value of libIdx
pushNativeSymbol(r, symAddr, name, size) ==
    LET n == StringTable_intern_cstr(r.c.st, name)
    IN  [c |-> [st |-> n.st,
                lt |-> r.c.lt,
                tt |-> [r.c.tt EXCEPT
                          !.nativeSymbols = Append(@, [libIndex     |-> r.ret,
                                                        address      |-> symAddr,
                                                        nameIdx      |-> n.ret,
                                                        functionSize |-> size]),
                          !.symAddrToNativeSymbol =
                              @ @@ (symAddr :> Len(r.c.tt.nativeSymbols))]],
         ret |-> Len(r.c.tt.nativeSymbols)]

\* getOrCreateNativeSymbol without the lookup in symAddrToNativeSymbol
getOrCreateNativeSymbol_mut(c, symAddr, name, imageName, size) ==
    pushNativeSymbol(
        resourceOfImage(widenLib(c, imageName, symAddr, size), imageName),
        symAddr, name, size)

\* ThreadTables::getOrCreateNativeSymbol
getOrCreateNativeSymbol(c, symAddr, name, imageName, size) ==
    IF symAddr \in DOMAIN c.tt.symAddrToNativeSymbol
    THEN [c   |-> widenLib(c, imageName, symAddr, size),
          ret |-> c.tt.symAddrToNativeSymbol[symAddr]]
    ELSE pushNativeSymbol(
             resourceOfImage(widenLib(c, imageName, symAddr, size), imageName),
             symAddr, name, size)

\* getOrCreateFunc taking the index after the push_back
getOrCreateFunc_mut(c, symAddr, name, fileName, line, resourceIdx) ==
    IF symAddr \in DOMAIN c.tt.symAddrToFunc
    THEN [c |-> c, ret |-> c.tt.symAddrToFunc[symAddr]]
    ELSE LET idx == Len(c.tt.funcs) + 1
             n   == StringTable_intern_cstr(c.st, name)
             f   == StringTable_intern_cstr(n.st, fileName)
         IN  [c |-> [st |-> f.st,
                     lt |-> c.lt,
                     tt |-> [c.tt EXCEPT
                               !.funcs = Append(@, [nameIdx      |-> n.ret,
                                                     resourceIdx  |-> resourceIdx,
                                                     fileNameIdx  |-> f.ret,
                                                     lineNumber   |-> line,
                                                     columnNumber |-> 0]),
                               !.symAddrToFunc = @ @@ (symAddr :> idx)]],
              ret |-> idx]

\* ThreadTables::getOrCreateFunc
getOrCreateFunc(c, symAddr, name, fileName, line, resourceIdx) ==
    IF symAddr \in DOMAIN c.tt.symAddrToFunc
    THEN [c |-> c, ret |-> c.tt.symAddrToFunc[symAddr]]
    ELSE LET idx == Len(c.tt.funcs)
             n   == StringTable_intern_cstr(c.st, name)
             f   == StringTable_intern_cstr(n.st, fileName)
         IN  [c |-> [st |-> f.st,
                     lt |-> c.lt,
                     tt |-> [c.tt EXCEPT
                               !.funcs = Append(@, [nameIdx      |-> n.ret,
                                                     resourceIdx  |-> resourceIdx,
                                                     fileNameIdx  |-> f.ret,
                                                     lineNumber   |-> line,
                                                     columnNumber |-> 0]),
                               !.symAddrToFunc = @ @@ (symAddr :> idx)]],
              ret |-> idx]

\* thread_tables.cpp:77  symAddr ^ (static_cast<uint64_t>(inlineDepth) << 48)
FrameKey(symAddr, inlineDepth) ==
    <<XorBits(symAddr[1], inlineDepth % Limb, 16), symAddr[2], symAddr[3], symAddr[4]>>

\* thread_tables.cpp:90-101  ns is the result of getOrCreateNativeSymbol
pushFrame(ns, funcIdx, symAddr, line, column, inlineDepth, category) ==
    [c |-> [ns.c EXCEPT
              !.tt.frames = Append(@, [funcIdx         |-> funcIdx,
                                        nativeSymbolIdx |-> ns.ret,
                                        category        |-> category,
                                        address         |-> ToInt64(symAddr),
                                        line            |-> line,
                                        column          |-> column,
                                        inlineDepth     |-> inlineDepth]),
              !.tt.frameKeyToFrame =
                  @ @@ (FrameKey(symAddr, inlineDepth) :> Len(ns.c.tt.frames))],
     ret |-> Len(ns.c.tt.frames)]

\* thread_tables.cpp:88  fn is the result of getOrCreateFunc
frameNativeSymbol(fn, symAddr, name, line, column, inlineDepth, imageName, symSize, category) ==
    pushFrame(getOrCreateNativeSymbol(fn.c, symAddr, name, imageName, symSize),
              fn.ret, symAddr, line, column, inlineDepth, category)

\* the func looked up under the frame key in place of the symbol address
frameFunc_mut(r, symAddr, name, fileName, line, column, inlineDepth, imageName, symSize, category) ==
    frameNativeSymbol(getOrCreateFunc(r.c, FrameKey(symAddr, inlineDepth), name,
                                      fileName, line, r.ret),
                      symAddr, name, line, column, inlineDepth, imageName,
                      symSize, category)

\* thread_tables.cpp:87  r is the result of the resource lookup
frameFunc(r, symAddr, name, fileName, line, column, inlineDepth, imageName, symSize, category) ==
    frameNativeSymbol(getOrCreateFunc(r.c, symAddr, name, fileName, line, r.ret),
                      symAddr, name, line, column, inlineDepth, imageName,
                      symSize, category)

\* ThreadTables::getOrCreateFrame
getOrCreateFrame(c, symAddr, name, fileName, line, column, inlineDepth, imageName, symSize, category) ==
    IF FrameKey(symAddr, inlineDepth) \in DOMAIN c.tt.frameKeyToFrame
    THEN [c |-> c, ret |-> c.tt.frameKeyToFrame[FrameKey(symAddr, inlineDepth)]]
    ELSE frameFunc(resourceOfImage(c, imageName), symAddr, name, fileName, line,
                   column, inlineDepth, imageName, symSize, category)

\* the stack key built with + in place of the shift and the or
StackKey_mut(prefix, frame) ==
    <<0, 0, (prefix + 1 + frame) \div Limb, (prefix + 1 + frame) % Limb>>

\* thread_tables.cpp:106  (static_cast<uint64_t>(prefix + 1) << 32) | frame
StackKey(prefix, frame) ==
    <<(prefix + 1) \div Limb, (prefix + 1) % Limb, frame \div Limb, frame % Limb>>

\* getOrCreateStack storing the key's prefix + 1 in the row
getOrCreateStack_mut(tt, prefix, frame) ==
    LET key == StackKey(prefix, frame)
    IN  IF key \in DOMAIN tt.stackKeyToStack
        THEN [tt |-> tt, ret |-> tt.stackKeyToStack[key]]
        ELSE LET idx == Len(tt.stacks)
             IN  [tt |-> [tt EXCEPT
                            !.stacks = Append(@, [prefix |-> prefix + 1, frame |-> frame]),
                            !.stackKeyToStack = @ @@ (key :> idx)],
                  ret |-> idx]

\* ThreadTables::getOrCreateStack
getOrCreateStack(tt, prefix, frame) ==
    LET key == StackKey(prefix, frame)
    IN  IF key \in DOMAIN tt.stackKeyToStack
        THEN [tt |-> tt, ret |-> tt.stackKeyToStack[key]]
        ELSE LET idx == Len(tt.stacks)
             IN  [tt |-> [tt EXCEPT
                            !.stacks = Append(@, [prefix |-> prefix, frame |-> frame]),
                            !.stackKeyToStack = @ @@ (key :> idx)],
                  ret |-> idx]

\* ------------------------------------------------------------------------
\* The trace reader (tracy::Worker) as the collectors see it: a fixed
\* trace whose callstacks cover plain, shared-prefix, inlined, kernel,
\* image-less, unresolvable and high-address frames.
\* ------------------------------------------------------------------------
Addr0    == <<0, 0, 0, 0>>
AddrA    == <<0, 0, 0, 4096>>
AddrB    == <<0, 0, 0, 8192>>
AddrC    == <<0, 0, 0, 12288>>
AddrK    == <<65535, 32768, 0, 4096>>
AddrH    == <<1, 0, 0, 4096>>

\* worker.GetCallstackFrame(frameId): present = FALSE is the null result;
\* data[1] is data[0] of the code (the innermost sub-frame)
GetCallstackFrame(frameId) ==
    CASE frameId = 1 -> [present |-> TRUE, imageName |-> "libA",
                         data |-> <<[name |-> "A", file |-> "a.c", line |-> 10, symAddr |-> AddrA]>>]
      [] frameId = 2 -> [present |-> TRUE, imageName |-> "libA",
                         data |-> <<[name |-> "B", file |-> "b.c", line |-> 20, symAddr |-> AddrB]>>]
      [] frameId = 3 -> [present |-> TRUE, imageName |-> "libB",
                         data |-> <<[name |-> "C", file |-> "", line |-> 0, symAddr |-> AddrC]>>]
      [] frameId = 4 -> [present |-> TRUE, imageName |-> "libA",
                         data |-> <<[name |-> "inl", file |-> "a.h", line |-> 5, symAddr |-> AddrA],
                                    [name |-> "A", file |-> "a.c", line |-> 11, symAddr |-> AddrA]>>]
      [] frameId = 5 -> [present |-> TRUE, imageName |-> "",
                         data |-> <<[name |-> "K", file |-> "", line |-> 0, symAddr |-> AddrK]>>]
      [] frameId = 7 -> [present |-> TRUE, imageName |-> "libB",
                         data |-> <<[name |-> "H", file |-> "h.c", line |-> 7, symAddr |-> AddrH]>>]
      [] frameId = 8 -> [present |-> TRUE, imageName |-> "libB",
                         data |-> <<[name |-> "Z", file |-> "", line |-> 0, symAddr |-> Addr0]>>]
      [] OTHER       -> [present |-> FALSE, imageName |-> "", data |-> <<>>]

\* worker.GetCanonicalPointer(frameId)
GetCanonicalPointer(frameId) ==
    IF frameId = 5 THEN <<65535, 32768, 0, 4100>> ELSE <<0, 0, 0, 4096 * frameId + 4>>

\* worker.GetSymbolData(symAddr): present = FALSE is the null result
GetSymbolData(symAddr) ==
    CASE symAddr = AddrA -> [present |-> TRUE, size |-> 256]
      [] symAddr = AddrB -> [present |-> TRUE, size |-> 128]
      [] symAddr = AddrK -> [present |-> TRUE, size |-> 64]
      [] symAddr = AddrH -> [present |-> TRUE, size |-> 16]
      [] symAddr = Addr0 -> [present |-> TRUE, size |-> 32]
      [] OTHER           -> [present |-> FALSE, size |-> 0]

\* worker.GetCallstack(csIdx): element 1 is callstack[0], the innermost entry
GetCallstack(csIdx) ==
    CASE csIdx = 1 -> <<2, 1>>
      [] csIdx = 2 -> <<3, 1>>
      [] csIdx = 3 -> <<>>
      [] csIdx = 4 -> <<5, 6, 4>>
      [] csIdx = 5 -> <<7, 8>>
      [] OTHER     -> <<>>

CallstackIds == 0..5

\* worker.DecompressThread(idx)
DecompressThread(idx) == 100 + idx

\* category indices handed to the collectors
userCategory == 1
kernelCategory == 2
gpuCategory == 3
lockCategory == 4
memoryCategory == 7

\* ------------------------------------------------------------------------
\* Sample and allocation collectors
\* ------------------------------------------------------------------------
\* A walk state r is [c |-> context, stackIdx |-> the running stackIdx].

\* stackIdx = getOrCreateStack(stackIdx, frameIdx); f is the result of
\* getOrCreateFrame (thread_tables.cpp:521 and 591)
stackStep_mut(f, stackIdx) ==
    LET s == getOrCreateStack(f.c.tt, -1, f.ret)
    IN  [c |-> [f.c EXCEPT !.tt = s.tt], stackIdx |-> s.ret]

\* thread_tables.cpp:521  f is the result of getOrCreateFrame
stackStep(f, stackIdx) ==
    LET s == getOrCreateStack(f.c.tt, stackIdx, f.ret)
    IN  [c |-> [f.c EXCEPT !.tt = s.tt], stackIdx |-> s.ret]

\* the body of the sub-frame loop for data[j - 1] (data[j] here)
subFrameStep(r, frameData, imageName, category, j) ==
    LET frame   == frameData.data[j]
        symData == GetSymbolData(frame.symAddr)
        symSize == IF symData.present THEN symData.size ELSE 0
        inlineDepth == Len(frameData.data) - j
    IN  stackStep(getOrCreateFrame(r.c, frame.symAddr, frame.name, frame.file,
                                   frame.line, 0, inlineDepth,
                                   imageName, symSize, category),
                  r.stackIdx)

\* the sub-frame loop of processSamples / buildStack:
\* for (uint8_t j = frameData->size; j > 0; j--)
RECURSIVE walkSubFrames(_, _, _, _, _)
walkSubFrames(r, frameData, imageName, category, j) ==
    IF j = 0 THEN r
    ELSE The({walkSubFrames(q, frameData, imageName, category, j - 1) :
                 q \in {subFrameStep(r, frameData, imageName, category, j)}})

\* the body of the callstack loop for callstack[i - 1] (callstack[i] here)
callstackStep(r, frameId, userCat, kernelCat) ==
    LET frameData == GetCallstackFrame(frameId)
        category  == IF is_kernel_address(GetCanonicalPointer(frameId))
                     THEN kernelCat ELSE userCat
    IN  IF frameData.present
        THEN walkSubFrames(r, frameData, frameData.imageName, category,
                           Len(frameData.data))
        ELSE r

\* the callstack loop of processSamples / buildStack:
\* for (size_t i = callstack.size(); i > 0; i--)
RECURSIVE walkCallstack(_, _, _, _, _)
walkCallstack(r, callstack, userCat, kernelCat, i) ==
    IF i = 0 THEN r
    ELSE The({walkCallstack(q, callstack, userCat, kernelCat, i - 1) :
                 q \in {callstackStep(r, callstack[i], userCat, kernelCat)}})

\* the sample row pushed without the stack the walk ended at
pushSample_mut(r, sampleTime) ==
    [r.c EXCEPT
       !.tt.minTime = Int64Min(@, Int64(sampleTime)),
       !.tt.maxTime = Max(@, sampleTime),
       !.tt.samples = Append(@, [time     |-> ns_to_ms(sampleTime),
                                  stackIdx |-> -1,
                                  weight   |-> 1])]

\* thread_tables.cpp:482-483, 525-529  r is the walk state after the loops
pushSample(r, sampleTime) ==
    [r.c EXCEPT
       !.tt.minTime = Int64Min(@, Int64(sampleTime)),
       !.tt.maxTime = Max(@, sampleTime),
       !.tt.samples = Append(@, [time     |-> ns_to_ms(sampleTime),
                                  stackIdx |-> r.stackIdx,
                                  weight   |-> 1])]

\* the sample loop without the test for an empty callstack
sampleStep_mut(c, sample, userCat, kernelCat) ==
    IF sample.callstack = 0
    THEN c
    ELSE pushSample(walkCallstack([c |-> c, stackIdx |-> -1],
                                  GetCallstack(sample.callstack),
                                  userCat, kernelCat,
                                  Len(GetCallstack(sample.callstack))),
                    sample.time)

\* the body of the sample loop of processSamples
sampleStep(c, sample, userCat, kernelCat) ==
    IF sample.callstack = 0 \/ GetCallstack(sample.callstack) = <<>>
    THEN c
    ELSE pushSample(walkCallstack([c |-> c, stackIdx |-> -1],
                                  GetCallstack(sample.callstack),
                                  userCat, kernelCat,
                                  Len(GetCallstack(sample.callstack))),
                    sample.time)

\* ThreadTables::processSamples: samples is td.samples, a sequence of
\* [time, callstack]
RECURSIVE processSamples(_, _, _, _)
processSamples(c, samples, userCat, kernelCat) ==
    IF samples = <<>> THEN c
    ELSE The({processSamples(q, Tail(samples), userCat, kernelCat) :
                 q \in {sampleStep(c, Head(samples), userCat, kernelCat)}})

\* the lambda buildStack of processAllocations
buildStack(c, csIdx, category) ==
    IF csIdx = 0 \/ GetCallstack(csIdx) = <<>>
    THEN [c |-> c, stackIdx |-> -1]
    ELSE walkCallstack([c |-> c, stackIdx |-> -1], GetCallstack(csIdx),
                       category, category, Len(GetCallstack(csIdx)))

\* insertion that places a row before the rows of equal time
RECURSIVE InsertByTime_mut(_, _)
InsertByTime_mut(sorted, row) ==
    IF sorted = <<>> THEN <<row>>
    ELSE LET last == sorted[Len(sorted)]
         IN  IF ~MsLess(last.time, row.time)
             THEN Append(InsertByTime_mut(SubSeq(sorted, 1, Len(sorted) - 1), row), last)
             ELSE Append(sorted, row)

\* std::stable_sort(allocations, a.time < b.time): stable insertion
RECURSIVE InsertByTime(_, _)
InsertByTime(sorted, row) ==
    IF sorted = <<>> THEN <<row>>
    ELSE LET last == sorted[Len(sorted)]
         IN  IF MsLess(row.time, last.time)
             THEN Append(InsertByTime(SubSeq(sorted, 1, Len(sorted) - 1), row), last)
             ELSE Append(sorted, row)

RECURSIVE StableSortByTime(_)
StableSortByTime(rows) ==
    IF rows = <<>> THEN <<>>
    ELSE InsertByTime(StableSortByTime(SubSeq(rows, 1, Len(rows) - 1)), rows[Len(rows)])

\* minTime / maxTime update and allocations.push_back; r is the result of
\* buildStack (thread_tables.cpp:597-606 and 610-619)
pushAllocation(r, time, weight, ptr, threadId) ==
    [r.c EXCEPT
       !.tt.minTime = Int64Min(@, Int64(time)),
       !.tt.maxTime = Max(@, time),
       !.tt.allocations = Append(@, [time          |-> ns_to_ms(time),
                                      weight        |-> weight,
                                      stackIdx      |-> r.stackIdx,
                                      memoryAddress |-> ptr,
                                      threadId      |-> threadId])]

\* the free row pushed only for a free time above zero
freeRow_mut(c, ev, category) ==
    IF ev.timeFree > 0
    THEN pushAllocation(buildStack(c, ev.csFree, category), ev.timeFree,
                        0 - ev.size, ev.ptr, DecompressThread(ev.threadFree))
    ELSE c

\* thread_tables.cpp:608-620  the free row of a freed event
freeRow(c, ev, category) ==
    IF ev.timeFree >= 0
    THEN pushAllocation(buildStack(c, ev.csFree, category), ev.timeFree,
                        0 - ev.size, ev.ptr, DecompressThread(ev.threadFree))
    ELSE c

\* the loop body of processAllocations for one memory event
processAllocationEvent(c, ev, category) ==
    freeRow(pushAllocation(buildStack(c, ev.csAlloc, category), ev.timeAlloc,
                           ev.size, ev.ptr, DecompressThread(ev.threadAlloc)),
            ev, category)

RECURSIVE processAllocationEvents(_, _, _)
processAllocationEvents(c, events, category) ==
    IF events = <<>> THEN c
    ELSE processAllocationEvents(processAllocationEvent(c, Head(events), category),
                                 Tail(events), category)

\* the final std::stable_sort of processAllocations
sortAllocations(c) == [c EXCEPT !.tt.allocations = StableSortByTime(@)]

\* ThreadTables::processAllocations: events is the concatenation of the
\* memory events of worker.GetMemNameMap() in iteration order
processAllocations(c, events, category) ==
    sortAllocations(processAllocationEvents(c, events, category))

\* ------------------------------------------------------------------------
\* Serialisation (thread_tables.cpp: *ToJson).  A JSON object is a record,
\* a JSON array a sequence, JSON null the value JsonNull.
\* ------------------------------------------------------------------------
JsonNull == [null |-> TRUE]

NullIfZero(n) == IF n > 0 THEN n ELSE JsonNull
NullIfNegative(n) == IF n >= 0 THEN n ELSE JsonNull

\* frameTableToJson with the line column pushed only for a known line
frameTableToJson_mut(tt) ==
    LET loop[i \in 0..Len(tt.frames)] ==
            IF i = 0
            THEN [address |-> <<>>, category |-> <<>>, subcategory |-> <<>>,
                  func |-> <<>>, nativeSymbol |-> <<>>, innerWindowID |-> <<>>,
                  line |-> <<>>, column |-> <<>>, inlineDepth |-> <<>>]
            ELSE The({[address       |-> Append(a.address, f.address),
                      category      |-> Append(a.category, f.category),
                      subcategory   |-> Append(a.subcategory, JsonNull),
                      func          |-> Append(a.func, f.funcIdx),
                      nativeSymbol  |-> Append(a.nativeSymbol, f.nativeSymbolIdx),
                      innerWindowID |-> Append(a.innerWindowID, JsonNull),
                      line          |-> IF f.line > 0 THEN Append(a.line, f.line)
                                        ELSE a.line,
                      column        |-> Append(a.column, NullIfZero(f.column)),
                      inlineDepth   |-> Append(a.inlineDepth, f.inlineDepth)] :
                        f \in {tt.frames[i]}, a \in {loop[i - 1]}})
        cols == loop[Len(tt.frames)]
    IN  [length        |-> Len(tt.frames),
         address       |-> cols.address,
         category      |-> cols.category,
         subcategory   |-> cols.subcategory,
         func          |-> cols.func,
         nativeSymbol  |-> cols.nativeSymbol,
         innerWindowID |-> cols.innerWindowID,
         line          |-> cols.line,
         column        |-> cols.column,
         inlineDepth   |-> cols.inlineDepth]

\* ThreadTables::frameTableToJson: the loop pushes one element per column
\* and frame; loop[i] is the state of the columns after i iterations
frameTableToJson(tt) ==
    LET loop[i \in 0..Len(tt.frames)] ==
            IF i = 0
            THEN [address |-> <<>>, category |-> <<>>, subcategory |-> <<>>,
                  func |-> <<>>, nativeSymbol |-> <<>>, innerWindowID |-> <<>>,
                  line |-> <<>>, column |-> <<>>, inlineDepth |-> <<>>]
            ELSE The({[address       |-> Append(a.address, f.address),
                      category      |-> Append(a.category, f.category),
                      subcategory   |-> Append(a.subcategory, JsonNull),
                      func          |-> Append(a.func, f.funcIdx),
                      nativeSymbol  |-> Append(a.nativeSymbol, f.nativeSymbolIdx),
                      innerWindowID |-> Append(a.innerWindowID, JsonNull),
                      line          |-> Append(a.line, NullIfZero(f.line)),
                      column        |-> Append(a.column, NullIfZero(f.column)),
                      inlineDepth   |-> Append(a.inlineDepth, f.inlineDepth)] :
                        f \in {tt.frames[i]}, a \in {loop[i - 1]}})
        cols == loop[Len(tt.frames)]
    IN  [length        |-> Len(tt.frames),
         address       |-> cols.address,
         category      |-> cols.category,
         subcategory   |-> cols.subcategory,
         func          |-> cols.func,
         nativeSymbol  |-> cols.nativeSymbol,
         innerWindowID |-> cols.innerWindowID,
         line          |-> cols.line,
         column        |-> cols.column,
         inlineDepth   |-> cols.inlineDepth]

\* ThreadTables::funcTableToJson
funcTableToJson(tt) ==
    LET loop[i \in 0..Len(tt.funcs)] ==
            IF i = 0
            THEN [name |-> <<>>, isJS |-> <<>>, relevantForJS |-> <<>>,
                  resource |-> <<>>, fileName |-> <<>>, lineNumber |-> <<>>,
                  columnNumber |-> <<>>]
            ELSE The({[name          |-> Append(a.name, f.nameIdx),
                      isJS          |-> Append(a.isJS, FALSE),
                      relevantForJS |-> Append(a.relevantForJS, FALSE),
                      resource      |-> Append(a.resource, f.resourceIdx),
                      fileName      |-> Append(a.fileName, f.fileNameIdx),
                      lineNumber    |-> Append(a.lineNumber, NullIfZero(f.lineNumber)),
                      columnNumber  |-> Append(a.columnNumber, NullIfZero(f.columnNumber))] :
                        f \in {tt.funcs[i]}, a \in {loop[i - 1]}})
        cols == loop[Len(tt.funcs)]
    IN  [length        |-> Len(tt.funcs),
         name          |-> cols.name,
         isJS          |-> cols.isJS,
         relevantForJS |-> cols.relevantForJS,
         resource      |-> cols.resource,
         fileName      |-> cols.fileName,
         lineNumber    |-> cols.lineNumber,
         columnNumber  |-> cols.columnNumber]

\* ThreadTables::nativeSymbolsToJson
nativeSymbolsToJson(tt) ==
    LET loop[i \in 0..Len(tt.nativeSymbols)] ==
            IF i = 0
            THEN [libIndex |-> <<>>, address |-> <<>>, name |-> <<>>,
                  functionSize |-> <<>>]
            ELSE The({[libIndex     |-> Append(a.libIndex, n.libIndex),
                      address      |-> Append(a.address, n.address),
                      name         |-> Append(a.name, n.nameIdx),
                      functionSize |-> Append(a.functionSize, NullIfZero(n.functionSize))] :
                        n \in {tt.nativeSymbols[i]}, a \in {loop[i - 1]}})
        cols == loop[Len(tt.nativeSymbols)]
    IN  [length       |-> Len(tt.nativeSymbols),
         libIndex     |-> cols.libIndex,
         address      |-> cols.address,
         name         |-> cols.name,
         functionSize |-> cols.functionSize]

\* ThreadTables::resourceTableToJson
resourceTableToJson(tt) ==
    LET loop[i \in 0..Len(tt.resources)] ==
            IF i = 0
            THEN [lib |-> <<>>, name |-> <<>>, host |-> <<>>, type |-> <<>>]
            ELSE The({[lib  |-> Append(a.lib, r.libIdx),
                      name |-> Append(a.name, r.nameIdx),
                      host |-> Append(a.host, JsonNull),
                      type |-> Append(a.type, 1)] :
                        r \in {tt.resources[i]}, a \in {loop[i - 1]}})
        cols == loop[Len(tt.resources)]
    IN  [length |-> Len(tt.resources),
         lib    |-> cols.lib,
         name   |-> cols.name,
         host   |-> cols.host,
         type   |-> cols.type]

\* ThreadTables::stackTableToJson
stackTableToJson(tt) ==
    LET loop[i \in 0..Len(tt.stacks)] ==
            IF i = 0
            THEN [prefix |-> <<>>, frame |-> <<>>]
            ELSE The({[prefix |-> Append(a.prefix, NullIfNegative(s.prefix)),
                      frame  |-> Append(a.frame, s.frame)] :
                        s \in {tt.stacks[i]}, a \in {loop[i - 1]}})
        cols == loop[Len(tt.stacks)]
    IN  [length |-> Len(tt.stacks),
         prefix |-> cols.prefix,
         frame  |-> cols.frame]

\* samplesToJson that never advances prevTime
samplesToJson_mut(tt) ==
    LET loop[i \in 0..Len(tt.samples)] ==
            IF i = 0
            THEN [stack |-> <<>>, timeDeltas |-> <<>>, weight |-> <<>>,
                  threadCPUDelta |-> <<>>, prevTime |-> MsZero]
            ELSE The({[stack          |-> Append(a.stack, NullIfNegative(s.stackIdx)),
                       timeDeltas     |-> Append(a.timeDeltas, MsSub(s.time, a.prevTime)),
                       weight         |-> Append(a.weight, s.weight),
                       threadCPUDelta |-> Append(a.threadCPUDelta, JsonNull),
                       prevTime       |-> a.prevTime] :
                          s \in {tt.samples[i]}, a \in {loop[i - 1]}})
        cols == loop[Len(tt.samples)]
    IN  [length         |-> Len(tt.samples),
         stack          |-> cols.stack,
         timeDeltas     |-> cols.timeDeltas,
         weight         |-> cols.weight,
         weightType     |-> "samples",
         threadCPUDelta |-> cols.threadCPUDelta]

\* ThreadTables::samplesToJson; prevTime starts at 0.0 and follows the rows
samplesToJson(tt) ==
    LET loop[i \in 0..Len(tt.samples)] ==
            IF i = 0
            THEN [stack |-> <<>>, timeDeltas |-> <<>>, weight |-> <<>>,
                  threadCPUDelta |-> <<>>, prevTime |-> MsZero]
            ELSE The({[stack          |-> Append(a.stack, NullIfNegative(s.stackIdx)),
                       timeDeltas     |-> Append(a.timeDeltas, MsSub(s.time, a.prevTime)),
                       weight         |-> Append(a.weight, s.weight),
                       threadCPUDelta |-> Append(a.threadCPUDelta, JsonNull),
                       prevTime       |-> s.time] :
                          s \in {tt.samples[i]}, a \in {loop[i - 1]}})
        cols == loop[Len(tt.samples)]
    IN  [length         |-> Len(tt.samples),
         stack          |-> cols.stack,
         timeDeltas     |-> cols.timeDeltas,
         weight         |-> cols.weight,
         weightType     |-> "samples",
         threadCPUDelta |-> cols.threadCPUDelta]

\* ThreadTables::nativeAllocationsToJson
nativeAllocationsToJson(tt) ==
    LET loop[i \in 0..Len(tt.allocations)] ==
            IF i = 0
            THEN [time |-> <<>>, weight |-> <<>>, stack |-> <<>>,
                  memoryAddress |-> <<>>, threadId |-> <<>>]
            ELSE The({[time          |-> Append(a.time, r.time),
                      weight        |-> Append(a.weight, r.weight),
                      stack         |-> Append(a.stack, NullIfNegative(r.stackIdx)),
                      memoryAddress |-> Append(a.memoryAddress, r.memoryAddress),
                      threadId      |-> Append(a.threadId, r.threadId)] :
                        r \in {tt.allocations[i]}, a \in {loop[i - 1]}})
        cols == loop[Len(tt.allocations)]
    IN  [time          |-> cols.time,
         weight        |-> cols.weight,
         weightType    |-> "bytes",
         stack         |-> cols.stack,
         memoryAddress |-> cols.memoryAddress,
         threadId      |-> cols.threadId,
         length        |-> Len(tt.allocations)]

\* ThreadTables::markersToJson
markersToJson(tt) ==
    LET loop[i \in 0..Len(tt.markers)] ==
            IF i = 0
            THEN [category |-> <<>>, data |-> <<>>, name |-> <<>>,
                  startTime |-> <<>>, endTime |-> <<>>, phase |-> <<>>]
            ELSE The({[category  |-> Append(a.category, m.category),
                      data      |-> Append(a.data, m.data),
                      name      |-> Append(a.name, m.nameIdx),
                      startTime |-> Append(a.startTime, m.startTime),
                      endTime   |-> Append(a.endTime, m.endTime),
                      phase     |-> Append(a.phase, m.phase)] :
                        m \in {tt.markers[i]}, a \in {loop[i - 1]}})
        cols == loop[Len(tt.markers)]
    IN  [length    |-> Len(tt.markers),
         category  |-> cols.category,
         data      |-> cols.data,
         name      |-> cols.name,
         startTime |-> cols.startTime,
         endTime   |-> cols.endTime,
         phase     |-> cols.phase]

\* ThreadTables::threadToJson
threadToJson(tt) ==
    [frameTable     |-> frameTableToJson(tt),
     funcTable      |-> funcTableToJson(tt),
     markers        |-> markersToJson(tt),
     nativeSymbols  |-> nativeSymbolsToJson(tt),
     registerTime   |-> ns_to_ms(IF tt.minTime = INT64_MAX THEN 0 ELSE Int64Ns(tt.minTime)),
     resourceTable  |-> resourceTableToJson(tt),
     samples        |-> samplesToJson(tt),
     stackTable     |-> stackTableToJson(tt),
     unregisterTime |-> ns_to_ms(tt.maxTime)]

\* ------------------------------------------------------------------------
\* Zone collector
\* ------------------------------------------------------------------------
\* common.hpp: toGraphColor; rgb is <<r, g, b>>; the nearest palette entry
\* by Euclidean distance (compared through its square), the first one on a
\* tie; NoColor is std::nullopt
NoColor == "<nullopt>"

palette ==
    << <<"blue", 0, 112, 243>>,   <<"green", 16, 185, 129>>,
       <<"grey", 156, 163, 175>>, <<"ink", 17, 24, 39>>,
       <<"magenta", 236, 72, 153>>, <<"orange", 249, 115, 22>>,
       <<"purple", 168, 85, 247>>, <<"red", 239, 68, 68>>,
       <<"teal", 20, 184, 166>>,  <<"yellow", 234, 179, 8>> >>

toGraphColor(rgb) ==
    LET dist2(k) == (rgb[1] - palette[k][2]) * (rgb[1] - palette[k][2])
                  + (rgb[2] - palette[k][3]) * (rgb[2] - palette[k][3])
                  + (rgb[3] - palette[k][4]) * (rgb[3] - palette[k][4])
        best == CHOOSE k \in 1..Len(palette) :
                    \A m \in 1..Len(palette) :
                        dist2(k) < dist2(m) \/ (dist2(k) = dist2(m) /\ k <= m)
    IN  IF rgb = <<255, 255, 255>> THEN NoColor ELSE palette[best][1]

\* MarkerPhase
Instant == 0
Interval == 1
IntervalStart == 2
IntervalEnd == 3

\* ThreadTables::collectZone and ThreadTables::collectZones.  A zone is
\* [start, end, name, text, color, file, function, line, children]; end < 0
\* is an end that is not valid, text = NullPtr a zone without text,
\* color = <<0, 0, 0>> a zone without colour
RECURSIVE collectZone(_, _, _)
RECURSIVE collectZones(_, _, _)
collectZone(c, zone, category) ==
    IF zone.end < 0 THEN c
    ELSE LET hasColor == zone.color # <<0, 0, 0>>
             n   == StringTable_intern_cstr(c.st, zone.name)
             t   == IF zone.text # NullPtr
                    THEN StringTable_intern_cstr(n.st, zone.text)
                    ELSE [st |-> n.st, ret |-> -1]
             hasFile == zone.file # NullPtr /\ zone.file # ""
             fl  == IF hasFile
                    THEN StringTable_intern_cstr(t.st, zone.file)
                    ELSE [st |-> t.st, ret |-> -1]
             hasFunction == zone.function # NullPtr /\ zone.function # ""
             fn  == IF hasFunction
                    THEN StringTable_intern_cstr(fl.st, zone.function)
                    ELSE [st |-> fl.st, ret |-> -1]
             z   == StringTable_intern(fn.st, "TracyZone")
             markerData ==
                    [type |-> "TracyZone", name |-> n.ret]
                 @@ (IF zone.text # NullPtr THEN [text |-> t.ret] ELSE <<>>)
                 @@ (IF hasColor /\ toGraphColor(zone.color) # NoColor
                     THEN [color |-> toGraphColor(zone.color)] ELSE <<>>)
                 @@ (IF hasFile THEN [file |-> fl.ret, line |-> zone.line] ELSE <<>>)
                 @@ (IF hasFunction THEN [function |-> fn.ret] ELSE <<>>)
             tt1 == [c.tt EXCEPT
                       !.minTime = Int64Min(@, Int64(zone.start)),
                       !.maxTime = Max(@, zone.end),
                       !.markers = Append(@, [type      |-> "TracyZone",
                                               category  |-> category,
                                               nameIdx   |-> z.ret,
                                               startTime |-> ns_to_ms(zone.start),
                                               endTime   |-> ns_to_ms(zone.end),
                                               phase     |-> Interval,
                                               data      |-> markerData])]
             c1  == [st |-> z.st, lt |-> c.lt, tt |-> tt1]
         IN  IF zone.children # <<>>
             THEN collectZones(c1, zone.children, category)
             ELSE c1

collectZones(c, zones, category) ==
    IF zones = <<>> THEN c
    ELSE The({collectZones(q, Tail(zones), category) :
                 q \in {collectZone(c, Head(zones), category)}})

\* ThreadTables::collectGpuZone and ThreadTables::collectGpuZones.  An
\* entry of the vector is NullZone (a null pointer) or a GPU zone
\* [gpuStart, gpuEnd, cpuStart, cpuEnd, name, file, function, line, child,
\* children]; child is zone.Child(), children the vector of
\* worker.GetGpuChildren(child)
NullZone == [null |-> TRUE]

RECURSIVE collectGpuZone(_, _, _)
RECURSIVE collectGpuZones(_, _, _)
collectGpuZone(c, zone, category) ==
    IF zone.gpuEnd < 0 THEN c
    ELSE LET n   == StringTable_intern_cstr(c.st, zone.name)
             hasFile == zone.file # NullPtr /\ zone.file # ""
             fl  == IF hasFile
                    THEN StringTable_intern_cstr(n.st, zone.file)
                    ELSE [st |-> n.st, ret |-> -1]
             hasFunction == zone.function # NullPtr /\ zone.function # ""
             fn  == IF hasFunction
                    THEN StringTable_intern_cstr(fl.st, zone.function)
                    ELSE [st |-> fl.st, ret |-> -1]
             z   == StringTable_intern(fn.st, "TracyGpuZone")
             markerData ==
                    [type     |-> "TracyGpuZone",
                     name     |-> n.ret,
                     gpuStart |-> ns_to_ms(zone.gpuStart),
                     gpuEnd   |-> ns_to_ms(zone.gpuEnd),
                     cpuStart |-> ns_to_ms(zone.cpuStart),
                     cpuEnd   |-> ns_to_ms(zone.cpuEnd)]
                 @@ (IF hasFile THEN [file |-> fl.ret, line |-> zone.line] ELSE <<>>)
                 @@ (IF hasFunction THEN [function |-> fn.ret] ELSE <<>>)
             tt1 == [c.tt EXCEPT
                       !.minTime = Int64Min(@, Int64(zone.gpuStart)),
                       !.maxTime = Max(@, zone.gpuEnd),
                       !.markers = Append(@, [type      |-> "TracyGpuZone",
                                               category  |-> category,
                                               nameIdx   |-> z.ret,
                                               startTime |-> ns_to_ms(zone.gpuStart),
                                               endTime   |-> ns_to_ms(zone.gpuEnd),
                                               phase     |-> Interval,
                                               data      |-> markerData])]
             c1  == [st |-> z.st, lt |-> c.lt, tt |-> tt1]
         IN  IF zone.child >= 0
             THEN collectGpuZones(c1, zone.children, category)
             ELSE c1

collectGpuZones(c, zones, category) ==
    IF zones = <<>> THEN c
    ELSE IF Head(zones) = NullZone THEN collectGpuZones(c, Tail(zones), category)
    ELSE The({collectGpuZones(q, Tail(zones), category) :
                 q \in {collectGpuZone(c, Head(zones), category)}})

\* toGraphColor's three bytes of a uint32_t: (rgb >> 16) & 0xFF,
\* (rgb >> 8) & 0xFF, rgb & 0xFF
rgbBytes(rgb) == <<(rgb \div 65536) % 256, (rgb \div 256) % 256, rgb % 256>>

\* ThreadTables::processMessages.  An entry of worker.GetMessages() is
\* NullMessage (a null pointer) or [time (ns), text, color (uint32_t),
\* thread (compressed)]
NullMessage == [null |-> TRUE]

\* one iteration of the loop over worker.GetMessages()
messageStep(c, msg, category, threadId) ==
    IF msg = NullMessage THEN c
    ELSE IF DecompressThread(msg.thread) # threadId THEN c
    ELSE LET t == StringTable_intern_cstr(c.st, msg.text)
             z == StringTable_intern(t.st, "TracyMessage")
             markerData ==
                    [type |-> "TracyMessage", text |-> t.ret]
                 @@ (IF msg.color # 0 /\ toGraphColor(rgbBytes(msg.color)) # NoColor
                     THEN [color |-> toGraphColor(rgbBytes(msg.color))] ELSE <<>>)
         IN  [st |-> z.st, lt |-> c.lt,
              tt |-> [c.tt EXCEPT
                        !.minTime = Int64Min(@, Int64(msg.time)),
                        !.maxTime = Max(@, msg.time),
                        !.markers = Append(@, [type      |-> "TracyMessage",
                                                category  |-> category,
                                                nameIdx   |-> z.ret,
                                                startTime |-> ns_to_ms(msg.time),
                                                endTime   |-> ns_to_ms(msg.time),
                                                phase     |-> Instant,
                                                data      |-> markerData])]]

RECURSIVE processMessages(_, _, _, _)
processMessages(c, messages, category, threadId) ==
    IF messages = <<>> THEN c
    ELSE processMessages(messageStep(c, Head(messages), category, threadId),
                         Tail(messages), category, threadId)

\* ThreadTables::processFrames.  worker.GetFramesBase() is NoFrames (a null
\* pointer) or [name, frames], a frame being [start, end] in ns with
\* end < 0 for a frame without an end.
NoFrames == [null |-> TRUE]

\* durationMs > 0 ? 1000.0 / durationMs : 0, the double itself; ns is
\* end - start
framesPerSecond(ns) ==
    IF ns > 0
    THEN The({DoubleDiv([neg |-> FALSE, hi |-> 1000 * 2^15, lo |-> 0, e |-> -43], d) :
                 d \in {DoubleOfMs(ns)}})
    ELSE DoubleZero

\* one iteration of the loop over framesBase->frames; i is the 0-based index
frameStep(c, frameName, frame, i, category) ==
    IF frame.end < 0 THEN c
    ELSE LET n == StringTable_intern_cstr(c.st, frameName)
             z == StringTable_intern(n.st, "TracyFrame")
             markerData == [type        |-> "TracyFrame",
                            name        |-> n.ret,
                            frameNumber |-> i,
                            duration    |-> ns_to_ms(frame.end - frame.start),
                            fps         |-> framesPerSecond(frame.end - frame.start)]
         IN  [st |-> z.st, lt |-> c.lt,
              tt |-> [c.tt EXCEPT
                        !.minTime = Int64Min(@, Int64(frame.start)),
                        !.maxTime = Max(@, frame.end),
                        !.markers = Append(@, [type      |-> "TracyFrame",
                                                category  |-> category,
                                                nameIdx   |-> z.ret,
                                                startTime |-> ns_to_ms(frame.start),
                                                endTime   |-> ns_to_ms(frame.end),
                                                phase     |-> Interval,
                                                data      |-> markerData])]]

RECURSIVE walkFrames(_, _, _, _)
walkFrames(c, framesBase, category, i) ==
    IF i >= Len(framesBase.frames) THEN c
    ELSE walkFrames(frameStep(c, framesBase.name, framesBase.frames[i + 1], i, category),
                    framesBase, category, i + 1)

processFrames(c, framesBase, category) ==
    IF framesBase = NoFrames THEN c
    ELSE walkFrames(c, framesBase, category, 0)

\* ThreadTables::processLocks.  A lock of worker.GetLockMap() is
\* [lockId, valid, threadMap, customActive, customName, function, timeline];
\* threadMap is a sequence of <<thread id, thread bit>> pairs and an event
\* of the timeline is [time (ns), type, thread (bit)].  The lock map is a
\* hash map: its iteration order is the order of the sequence handed in.
Wait == "Wait"
Obtain == "Obtain"
Release == "Release"
WaitShared == "WaitShared"
ObtainShared == "ObtainShared"
ReleaseShared == "ReleaseShared"

threadMapHas(threadMap, threadId) ==
    \E i \in 1..Len(threadMap) : threadMap[i][1] = threadId

threadMapFind(threadMap, threadId) ==
    threadMap[CHOOSE i \in 1..Len(threadMap) : threadMap[i][1] = threadId][2]

lockNameOf(lockMap) ==
    IF lockMap.customActive THEN lockMap.customName ELSE lockMap.function

\* the marker pushed by an Obtain or ObtainShared whose wait is pending
pushLockMarker(r, lockMap, time, type, category) ==
    LET n == StringTable_intern_cstr(r.c.st, lockNameOf(lockMap))
        z == StringTable_intern(n.st, "TracyLock")
        markerData == [type      |-> "TracyLock",
                       name      |-> n.ret,
                       lockId    |-> lockMap.lockId,
                       operation |-> IF type = ObtainShared
                                     THEN "wait_shared" ELSE "wait"]
    IN  [c |-> [st |-> z.st, lt |-> r.c.lt,
                tt |-> [r.c.tt EXCEPT
                          !.markers = Append(@, [type      |-> "TracyLock",
                                                  category  |-> category,
                                                  nameIdx   |-> z.ret,
                                                  startTime |-> ns_to_ms(r.waitStart),
                                                  endTime   |-> ns_to_ms(time),
                                                  phase     |-> Interval,
                                                  data      |-> markerData])]],
         waitStart |-> -1]

\* the switch on the event's type; r is [c, waitStart]
lockSwitch_mut(r, lockMap, time, type, category) ==
    IF type \in {Wait, WaitShared} THEN [r EXCEPT !.waitStart = time]
    ELSE IF type \in {Obtain, ObtainShared}
         THEN IF r.waitStart >= 0
              THEN [pushLockMarker(r, lockMap, time, type, category)
                        EXCEPT !.waitStart = r.waitStart]
              ELSE r
    ELSE r

lockSwitch(r, lockMap, time, type, category) ==
    IF type \in {Wait, WaitShared} THEN [r EXCEPT !.waitStart = time]
    ELSE IF type \in {Obtain, ObtainShared}
         THEN IF r.waitStart >= 0
              THEN pushLockMarker(r, lockMap, time, type, category)
              ELSE r
    ELSE r

\* the timeline loop without the test of the event's thread bit
lockEventStep_mut(r, lockMap, ev, threadBit, category) ==
    lockSwitch([r EXCEPT !.c.tt.minTime = Int64Min(@, Int64(ev.time)),
                         !.c.tt.maxTime = Max(@, ev.time)],
               lockMap, ev.time, ev.type, category)

\* one iteration of the loop over lockMap->timeline
lockEventStep(r, lockMap, ev, threadBit, category) ==
    IF ev.thread # threadBit THEN r
    ELSE lockSwitch([r EXCEPT !.c.tt.minTime = Int64Min(@, Int64(ev.time)),
                              !.c.tt.maxTime = Max(@, ev.time)],
                    lockMap, ev.time, ev.type, category)

RECURSIVE walkLockTimeline(_, _, _, _, _)
walkLockTimeline(r, lockMap, threadBit, category, i) ==
    IF i > Len(lockMap.timeline) THEN r
    ELSE walkLockTimeline(lockEventStep(r, lockMap, lockMap.timeline[i],
                                        threadBit, category),
                          lockMap, threadBit, category, i + 1)

\* one iteration of the loop over worker.GetLockMap()
processLock(c, lockMap, category, threadId) ==
    IF ~lockMap.valid THEN c
    ELSE IF ~threadMapHas(lockMap.threadMap, threadId) THEN c
    ELSE walkLockTimeline([c |-> c, waitStart |-> -1], lockMap,
                          threadMapFind(lockMap.threadMap, threadId),
                          category, 1).c

RECURSIVE processLocks(_, _, _, _)
processLocks(c, lockMaps, category, threadId) ==
    IF lockMaps = <<>> THEN c
    ELSE processLocks(processLock(c, Head(lockMaps), category, threadId),
                      Tail(lockMaps), category, threadId)

\* ------------------------------------------------------------------------
\* Counters (thread_tables.cpp: ThreadTables::buildCounters, collectors.cpp:
\* build_counters).  A plot of worker.GetPlots() is [present, name, type,
\* data]; present = FALSE is a null pointer, data is a sequence of
\* [time (ns), val (a double)].
\* ------------------------------------------------------------------------
PlotUser == "User"
PlotMemory == "Memory"
PlotPower == "Power"
PlotSysTime == "SysTime"
PlotZone == "Zone"

\* worker.GetPid()
GetPid == 4242

\* std::to_string of an unsigned integer: its decimal digits
Digit(d) == <<"0", "1", "2", "3", "4", "5", "6", "7", "8", "9">>[d + 1]

RECURSIVE to_string(_)
to_string(n) ==
    IF n < 10 THEN <<Digit(n)>> ELSE Append(to_string(n \div 10), Digit(n % 10))

\* the switch on plot->type
plotCategory(type) ==
    CASE type = PlotUser   -> "User"
      [] type = PlotMemory -> "Memory"
      [] type = PlotPower  -> "Power"
      [] OTHER             -> "Other"

plotDescription(type) ==
    CASE type = PlotUser   -> "User-defined plot"
      [] type = PlotMemory -> "Memory usage"
      [] type = PlotPower  -> "Power consumption"
      [] OTHER             -> "Plot data"

plotColor(type) ==
    CASE type = PlotUser   -> "blue"
      [] type = PlotMemory -> "purple"
      [] type = PlotPower  -> "orange"
      [] OTHER             -> "grey"

plotSkipped(plot) ==
    ~plot.present \/ plot.data = <<>> \/ plot.type = PlotSysTime

counterTimes(data) == [i \in 1..Len(data) |-> ns_to_ms(data[i].time)]

\* thread_tables.cpp:964-969  absolute value to delta counts
deltaCounts(data) ==
    [i \in 1..Len(data) |->
        IF i = 1 THEN data[1].val ELSE DoubleSub(data[i].val, data[i - 1].val)]

\* collectors.cpp:18-22  count.push_back(item.val)
rawCounts(data) == [i \in 1..Len(data) |-> data[i].val]

\* the counter object pushed by ThreadTables::buildCounters
tablesCounter(plot, mainThreadIndex) ==
    [name            |-> plot.name,
     category        |-> plotCategory(plot.type),
     description     |-> plotDescription(plot.type),
     pid             |-> to_string(GetPid),
     mainThreadIndex |-> mainThreadIndex,
     samples         |-> [time   |-> counterTimes(plot.data),
                          count  |-> deltaCounts(plot.data),
                          length |-> Len(plot.data)]]

\* ThreadTables::buildCounters
RECURSIVE buildCounters(_, _)
buildCounters(plots, mainThreadIndex) ==
    IF plots = <<>> THEN <<>>
    ELSE (IF plotSkipped(Head(plots)) THEN <<>>
          ELSE <<tablesCounter(Head(plots), mainThreadIndex)>>)
         \o buildCounters(Tail(plots), mainThreadIndex)

\* the counter object pushed by build_counters
collectorsCounter(plot) ==
    [name            |-> plot.name,
     category        |-> plotCategory(plot.type),
     description     |-> plotDescription(plot.type),
     color           |-> plotColor(plot.type),
     pid             |-> to_string(GetPid),
     mainThreadIndex |-> 0,
     samples         |-> [time   |-> counterTimes(plot.data),
                          count  |-> rawCounts(plot.data),
                          length |-> Len(plot.data)]]

\* build_counters (collectors.cpp)
RECURSIVE build_counters(_)
build_counters(plots) ==
    IF plots = <<>> THEN <<>>
    ELSE (IF plotSkipped(Head(plots)) THEN <<>>
          ELSE <<collectorsCounter(Head(plots))>>)
         \o build_counters(Tail(plots))

\* a JSON object is the function from its keys to its values; operator[]
\* creates the key when it is missing, emplace_back makes an array of a
\* missing (null) value before it appends
jsonSet(obj, key, val) ==
    [k \in DOMAIN obj \cup {key} |-> IF k = key THEN val ELSE obj[k]]

jsonEmplaceBack(obj, key, val) ==
    jsonSet(obj, key, IF key \in DOMAIN obj THEN Append(obj[key], val) ELSE <<val>>)

\* ------------------------------------------------------------------------
\* main (fxexport.cpp), the head of a thread object: the name, the resolved
\* pid and the main-thread flag
\* ------------------------------------------------------------------------
\* pid_ != 0 ? pid_ : worker.GetPid()
resolvePid(pidFromTid, capturePid) == IF pidFromTid # 0 THEN pidFromTid ELSE capturePid

\* thread["isMainThread"] = pid == td->id
isMainThread(threadName, tid, pid) == pid = tid

\* fxexport.cpp:777-787  the keys of a thread object that are not
\* serialised tables; minTime and maxTime are main's locals in nanoseconds
threadHead(threadName, tid, pidFromTid, capturePid, captureProgram, minTime, maxTime) ==
    LET pid == resolvePid(pidFromTid, capturePid)
    IN  [name         |-> IF threadName # NullPtr THEN threadName ELSE "Thread",
         isMainThread |-> isMainThread(threadName, tid, pid),
         processType  |-> "default",
         processName  |-> IF captureProgram = "" THEN "Tracy" ELSE captureProgram,
         processStartupTime  |-> ns_to_ms(0),
         processShutdownTime |-> JsonNull,
         registerTime   |-> ns_to_ms(minTime),
         unregisterTime |-> ns_to_ms(maxTime),
         pid          |-> to_string(pid),
         tid          |-> tid]

\* ------------------------------------------------------------------------
\* The exporter of fxexport.cpp: main with its own ThreadTables struct and
\* its static collectors.  The struct has no LibTable, no allocations and no
\* minTime / maxTime (they are locals of main); getOrCreateFunc,
\* getOrCreateStack, the push of a native symbol and of a frame and the
\* serialisers other than markersToJson are the code of thread_tables.cpp
\* word for word, and their operators are used for both.
\* ------------------------------------------------------------------------
\* ThreadTables tables (fxexport.cpp:198-262)
fx_EmptyThreadTables ==
    [frames        |-> <<>>,
     funcs         |-> <<>>,
     nativeSymbols |-> <<>>,
     resources     |-> <<>>,
     stacks        |-> <<>>,
     samples       |-> <<>>,
     markers       |-> <<>>,
     symAddrToNativeSymbol |-> <<>>,
     symAddrToFunc         |-> <<>>,
     libNameToResource     |-> <<>>,
     frameKeyToFrame       |-> <<>>,
     stackKeyToStack       |-> <<>>]

\* fxexport.cpp: ThreadTables::getOrCreateResource; the row's libIdx is -1
fx_getOrCreateResource(c, libName) ==
    LET key == IF libName = NullPtr THEN "" ELSE libName
    IN  IF key \in DOMAIN c.tt.libNameToResource
        THEN [c |-> c, ret |-> c.tt.libNameToResource[key]]
        ELSE The({[c   |-> [c EXCEPT
                              !.st = n.st,
                              !.tt.resources = Append(@, [libIdx |-> -1, nameIdx |-> n.ret]),
                              !.tt.libNameToResource = @ @@ (key :> Len(c.tt.resources))],
                   ret |-> Len(c.tt.resources)] :
                     n \in {StringTable_intern_cstr(c.st, libName)}})

\* if (imageName && imageName[0]) getOrCreateResource(st, imageName), else -1
\* (fxexport.cpp:293-297 and 360-364)
fx_resourceOfImage(c, imageName) ==
    IF IsSet(imageName) THEN fx_getOrCreateResource(c, imageName)
    ELSE [c |-> c, ret |-> -1]

\* fxexport.cpp: ThreadTables::getOrCreateNativeSymbol
fx_getOrCreateNativeSymbol(c, symAddr, name, imageName, size) ==
    IF symAddr \in DOMAIN c.tt.symAddrToNativeSymbol
    THEN [c |-> c, ret |-> c.tt.symAddrToNativeSymbol[symAddr]]
    ELSE pushNativeSymbol(fx_resourceOfImage(c, imageName), symAddr, name, size)

\* fxexport.cpp:366-367  r is the result of the resource lookup
fx_frameFunc(r, symAddr, name, fileName, line, column, inlineDepth, imageName, symSize, category) ==
    The({pushFrame(fx_getOrCreateNativeSymbol(fn.c, symAddr, name, imageName, symSize),
                   fn.ret, symAddr, line, column, inlineDepth, category) :
            fn \in {getOrCreateFunc(r.c, symAddr, name, fileName, line, r.ret)}})

\* fxexport.cpp: ThreadTables::getOrCreateFrame
fx_getOrCreateFrame(c, symAddr, name, fileName, line, column, inlineDepth, imageName, symSize, category) ==
    IF FrameKey(symAddr, inlineDepth) \in DOMAIN c.tt.frameKeyToFrame
    THEN [c |-> c, ret |-> c.tt.frameKeyToFrame[FrameKey(symAddr, inlineDepth)]]
    ELSE fx_frameFunc(fx_resourceOfImage(c, imageName), symAddr, name, fileName,
                      line, column, inlineDepth, imageName, symSize, category)

\* fxexport.cpp: ThreadTables::markersToJson; the data of a marker is its
\* type, its name and, when the zone has one, its text
fx_markersToJson(tt) ==
    LET loop[i \in 0..Len(tt.markers)] ==
            IF i = 0
            THEN [category |-> <<>>, data |-> <<>>, name |-> <<>>,
                  startTime |-> <<>>, endTime |-> <<>>, phase |-> <<>>]
            ELSE The({[category  |-> Append(a.category, m.category),
                       data      |-> Append(a.data,
                                       [type |-> "TracyZone", name |-> m.nameIdx]
                                       @@ (IF m.hasText THEN [text |-> m.textIdx] ELSE <<>>)),
                       name      |-> Append(a.name, m.markerNameIdx),
                       startTime |-> Append(a.startTime, m.startTime),
                       endTime   |-> Append(a.endTime, m.endTime),
                       phase     |-> Append(a.phase, m.phase)] :
                         m \in {tt.markers[i]}, a \in {loop[i - 1]}})
        cols == loop[Len(tt.markers)]
    IN  [length    |-> Len(tt.markers),
         category  |-> cols.category,
         data      |-> cols.data,
         name      |-> cols.name,
         startTime |-> cols.startTime,
         endTime   |-> cols.endTime,
         phase     |-> cols.phase]

\* collect_zone and collect_zones_recursive.  z is [marker_data, minTime,
\* maxTime]; a zone whose end is not valid is left out with its children;
\* a null pointer of a pointer vector is skipped, so the vector is given
\* without them
RECURSIVE collect_zone(_, _)
RECURSIVE collect_zones_recursive(_, _)
collect_zone(z, zone) ==
    IF zone.end < 0 THEN z
    ELSE The({IF zone.children # <<>>
              THEN collect_zones_recursive(z1, zone.children)
              ELSE z1 :
                z1 \in {[marker_data |-> Append(z.marker_data,
                                                [name    |-> zone.name,
                                                 text    |-> zone.text,
                                                 startNs |-> zone.start,
                                                 endNs   |-> zone.end]),
                         minTime |-> Int64Min(z.minTime, Int64(zone.start)),
                         maxTime |-> Max(z.maxTime, zone.end)]}})

collect_zones_recursive(z, zones) ==
    IF zones = <<>> THEN z
    ELSE The({collect_zones_recursive(q, Tail(zones)) :
                 q \in {collect_zone(z, Head(zones))}})

\* tables.markers.push_back of process_markers for the marker m of
\* marker_data; a is the context so far
pushMarker(a, m, markerTypeIdx, userCat) ==
    LET n == StringTable_intern_cstr(a.st, m.name)
        t == IF m.text # NullPtr
             THEN StringTable_intern_cstr(n.st, m.text)
             ELSE [st |-> n.st, ret |-> 0]
    IN  [a EXCEPT
           !.st = t.st,
           !.tt.markers = Append(@, [category      |-> userCat,
                                     nameIdx       |-> n.ret,
                                     textIdx       |-> t.ret,
                                     hasText       |-> m.text # NullPtr,
                                     markerNameIdx |-> markerTypeIdx,
                                     startTime     |-> ns_to_ms(m.startNs),
                                     endTime       |-> ns_to_ms(m.endNs),
                                     phase         |-> Interval])]

\* process_markers: "TracyZone" is interned before the loop, then per
\* marker its name and, when it has one, its text
process_markers(c, marker_data, userCat) ==
    LET z == StringTable_intern(c.st, "TracyZone")
        loop[i \in 0..Len(marker_data)] ==
            IF i = 0 THEN [c EXCEPT !.st = z.st]
            ELSE The({pushMarker(a, marker_data[i], z.ret, userCat) :
                         a \in {loop[i - 1]}})
    IN  loop[Len(marker_data)]

\* the body of the sub-frame loop of process_samples for data[j - 1]
fx_subFrameStep(r, frameData, imageName, category, j) ==
    LET frame   == frameData.data[j]
        symData == GetSymbolData(frame.symAddr)
        symSize == IF symData.present THEN symData.size ELSE 0
        inlineDepth == Len(frameData.data) - j
    IN  stackStep(fx_getOrCreateFrame(r.c, frame.symAddr, frame.name, frame.file,
                                      frame.line, 0, inlineDepth,
                                      imageName, symSize, category),
                  r.stackIdx)

\* for (uint8_t j = frameData->size; j > 0; j--)
RECURSIVE fx_walkSubFrames(_, _, _, _, _)
fx_walkSubFrames(r, frameData, imageName, category, j) ==
    IF j = 0 THEN r
    ELSE The({fx_walkSubFrames(q, frameData, imageName, category, j - 1) :
                 q \in {fx_subFrameStep(r, frameData, imageName, category, j)}})

\* the body of the callstack loop of process_samples for callstack[i - 1]
fx_callstackStep(r, frameId, userCat, kernelCat) ==
    LET frameData == GetCallstackFrame(frameId)
        category  == IF is_kernel_address(GetCanonicalPointer(frameId))
                     THEN kernelCat ELSE userCat
    IN  IF frameData.present
        THEN fx_walkSubFrames(r, frameData, frameData.imageName, category,
                              Len(frameData.data))
        ELSE r

\* for (size_t i = callstack.size(); i > 0; i--)
RECURSIVE fx_walkCallstack(_, _, _, _, _)
fx_walkCallstack(r, callstack, userCat, kernelCat, i) ==
    IF i = 0 THEN r
    ELSE The({fx_walkCallstack(q, callstack, userCat, kernelCat, i - 1) :
                 q \in {fx_callstackStep(r, callstack[i], userCat, kernelCat)}})

\* the body of the sample loop of process_samples; m is [c, minTime, maxTime]
fx_sampleStep(m, sample, userCat, kernelCat) ==
    IF sample.callstack = 0 \/ GetCallstack(sample.callstack) = <<>>
    THEN m
    ELSE The({[c       |-> [r.c EXCEPT
                              !.tt.samples = Append(@, [time     |-> ns_to_ms(sample.time),
                                                         stackIdx |-> r.stackIdx,
                                                         weight   |-> 1])],
               minTime |-> Int64Min(m.minTime, Int64(sample.time)),
               maxTime |-> Max(m.maxTime, sample.time)] :
                 r \in {fx_walkCallstack([c |-> m.c, stackIdx |-> -1],
                                         GetCallstack(sample.callstack),
                                         userCat, kernelCat,
                                         Len(GetCallstack(sample.callstack)))}})

\* process_samples
RECURSIVE process_samples(_, _, _, _)
process_samples(m, samples, userCat, kernelCat) ==
    IF samples = <<>> THEN m
    ELSE The({process_samples(q, Tail(samples), userCat, kernelCat) :
                 q \in {fx_sampleStep(m, Head(samples), userCat, kernelCat)}})

\* fxexport.cpp:789-795  the serialised tables of a thread object
fx_tablesToJson(tt) ==
    [frameTable    |-> frameTableToJson(tt),
     funcTable     |-> funcTableToJson(tt),
     markers       |-> fx_markersToJson(tt),
     nativeSymbols |-> nativeSymbolsToJson(tt),
     resourceTable |-> resourceTableToJson(tt),
     samples       |-> samplesToJson(tt),
     stackTable    |-> stackTableToJson(tt)]

\* fxexport.cpp:760-771  a thread td of the trace is [id, name, pidFromTid,
\* timeline, samples]; the result is [c, minTime, maxTime] after
\* collect_zones_recursive, process_markers and process_samples on fresh
\* tables and the document's string table
collectThread(strings, td) ==
    The({process_samples([c       |-> process_markers([st |-> strings,
                                                       lt |-> EmptyLibTable,
                                                       tt |-> fx_EmptyThreadTables],
                                                      z.marker_data, userCategory),
                          minTime |-> z.minTime,
                          maxTime |-> z.maxTime],
                         td.samples, userCategory, kernelCategory) :
            z \in {collect_zones_recursive([marker_data |-> <<>>,
                                            minTime     |-> INT64_MAX,
                                            maxTime     |-> 0],
                                           td.timeline)}})

\* fxexport.cpp:771-795  if (minTime == INT64_MAX) minTime = 0, then the
\* thread object; m is the result of collectThread
threadObject(m, td, capturePid, captureProgram) ==
    threadHead(td.name, td.id, td.pidFromTid, capturePid, captureProgram,
               IF m.minTime = INT64_MAX THEN 0 ELSE Int64Ns(m.minTime), m.maxTime)
    @@ fx_tablesToJson(m.c.tt)

\* one pass of the loop over worker.GetThreadData(): s is [profile, st]
exportThread(s, td, capturePid, captureProgram) ==
    The({[profile |-> jsonEmplaceBack(s.profile, "threads",
                                      threadObject(m, td, capturePid, captureProgram)),
          st      |-> m.c.st] :
            m \in {collectThread(s.st, td)}})

\* ------------------------------------------------------------------------
\* Inputs handed to the collectors
\* ------------------------------------------------------------------------
SeqsUpTo(S, n) == UNION {[1..k -> S] : k \in 0..n}

\* td.samples: SampleData [time (ns), callstack]
SampleTimes == {1000000, 2500000}
SampleInputs == [time : SampleTimes, callstack : CallstackIds]

\* memory events of worker.GetMemNameMap(): timeFree = -1 is "not freed"
MemEventInputs ==
    {[timeAlloc |-> ta, timeFree |-> tf, size |-> 64, ptr |-> <<0, 0, 1, 0>>,
      csAlloc |-> cs[1], csFree |-> cs[2], threadAlloc |-> 0, threadFree |-> 1] :
        ta \in {1000000, 2500000}, tf \in {-1, 2500000},
        cs \in {<<0, 0>>, <<1, 2>>, <<5, 4>>}}

\* td->timeline
Zone(start, end, name, text, color, children) ==
    [start |-> start, end |-> end, name |-> name, text |-> text, color |-> color,
     file |-> "z.c", function |-> "", line |-> 3, children |-> children]

ZoneInputs ==
    { <<>>,
      << Zone(0, 10000000, "work", NullPtr, <<0, 0, 0>>,
              << Zone(2000000, 8000000, "inner", "txt", <<255, 0, 0>>, <<>>) >>) >>,
      << Zone(1000000, -1, "open", NullPtr, <<0, 0, 0>>,
              << Zone(2000000, 3000000, "closed", NullPtr, <<255, 255, 255>>, <<>>) >>) >> }

\* ------------------------------------------------------------------------
\* State
\* ------------------------------------------------------------------------
VARIABLES
    st,         \* the document's StringTable
    lt,         \* the document's LibTable
    tt,         \* the ThreadTables of the thread being built
    pc,         \* position of the exporter in the thread being built
    thread,     \* number of the thread being built, from 1
    fed,        \* [samples, events, calls]: inputs handed over so far
    emitted,    \* the JSON of the thread just serialised, or NoJson
    call,       \* the last call of a table primitive (unit harness)
    reader,     \* the readiness flags of the trace reader (tracy::Worker)
    profile,    \* the JSON document main builds and writes
    capture     \* the run of the capture tool (capture.cpp), or NoCapture

vars == <<st, lt, tt, pc, thread, fed, emitted, call, reader, profile, capture>>

NoJson == [none |-> TRUE]
NoCall == [op |-> "none"]

NoCapture == [pc |-> "none"]

ctx == [st |-> st, lt |-> lt, tt |-> tt]

\* worker.AreSourceLocationZonesReady() and worker.AreCallstackSamplesReady()
\* as the reader's background thread leaves them
ReaderStarting == [sourceLocationZonesReady |-> FALSE, callstackSamplesReady |-> FALSE]
ReaderReady == [sourceLocationZonesReady |-> TRUE, callstackSamplesReady |-> TRUE]

\* the capture header read from the worker: GetCaptureName,
\* GetCaptureProgram, GetHostInfo, GetSamplingPeriod (ns), GetCaptureTime (s)
Header(captureName, captureProgram, hostInfo, samplingPeriod, captureTime) ==
    [captureName |-> captureName, captureProgram |-> captureProgram,
     hostInfo |-> hostInfo, samplingPeriod |-> samplingPeriod,
     captureTime |-> captureTime]

NoHeader == Header("", "", "", 0, 0)

HeaderInputs == {NoHeader, Header("trace", "app", "linux", 1000000, 1700)}

\* profile["meta"], with importedFrom when the capture has a name
metaToJson(h) ==
    LET meta ==
          [categories |->
               <<[name |-> "Other", color |-> "grey", subcategories |-> <<"Other">>],
                 [name |-> "User", color |-> "yellow", subcategories |-> <<"Other">>],
                 [name |-> "Kernel", color |-> "orange", subcategories |-> <<"Other">>]>>,
           debug |-> FALSE,
           interval |-> ns_to_ms(h.samplingPeriod),
           markerSchema |->
               <<[name |-> "TracyZone",
                  display |-> <<"marker-chart", "marker-table">>,
                  chartLabel |-> "{marker.data.name}",
                  tooltipLabel |-> "{marker.data.name}",
                  tableLabel |-> "{marker.data.name}",
                  description |-> "Emitted for Tracy zones",
                  fields |-> <<[key |-> "name", label |-> "Name", format |-> "unique-string"],
                               [key |-> "text", label |-> "Text",
                                description |-> "User text", format |-> "unique-string"]>>]>>,
           pausedRanges |-> <<>>,
           platform |-> h.hostInfo,
           preprocessedProfileVersion |-> 57,
           processType |-> 0,
           product |-> IF h.captureProgram = "" THEN "Tracy" ELSE h.captureProgram,
           startTime |-> h.captureTime * 1000,
           startTimeAsClockMonotonicNanosecondsSinceBoot |-> 0,
           symbolicated |-> TRUE,
           version |-> 28,
           sampleUnits |-> [time |-> "ms", eventDelay |-> "ms", threadCPUDelta |-> "µs"],
           usesOnlyOneStackType |-> TRUE,
           sourceCodeIsNotOnSearchfox |-> TRUE]
    IN  IF h.captureName # "" THEN jsonSet(meta, "importedFrom", h.captureName) ELSE meta

\* profile["meta"] = {...}; profile["libs"] = json::array()
profileMeta(h) == [meta |-> metaToJson(h), libs |-> <<>>]

\* profile["shared"] = {{"stringArray", st.to_json()}}
profileShared(doc, strings) == jsonSet(doc, "shared", [stringArray |-> strings.m_strings])

\* ------------------------------------------------------------------------
\* profile.dump(): the document's strings are written as UTF-8, and a
\* string that is not well-formed UTF-8 makes dump throw
\* nlohmann::json::type_error (316).  Names of threads, zones, functions,
\* files and images are bytes of the profiled program, stored unchecked.
\* ------------------------------------------------------------------------
\* a thread name of the bytes 63 61 66 E9: "caf" and a Latin-1 e acute
Latin1Name == "caf\\xE9"

\* the bytes of the strings that have a byte above 0x7F; any other string
\* of the model is ASCII
NonAsciiBytes ==
    [s \in {"µs", Latin1Name} |->
        IF s = "µs" THEN <<194, 181>> ELSE <<99, 97, 102, 233>>]

\* the decoder's states: n bytes of a sequence still to come, the next of
\* them within lo..hi; n = 0 between sequences, n = -1 after a byte that
\* cannot stand where it is
Utf8State(n, lo, hi) == [n |-> n, lo |-> lo, hi |-> hi]
UTF8_ACCEPT == Utf8State(0, 128, 191)
UTF8_REJECT == Utf8State(-1, 128, 191)

\* a byte between sequences: ASCII, or the lead byte of a sequence of two
\* (C2..DF), three (E0..EF) or four (F0..F4) bytes; E0, ED, F0 and F4
\* narrow the byte that follows (no overlong forms, no surrogates, nothing
\* above U+10FFFF)
utf8Lead(byte) ==
    IF byte <= 127 THEN UTF8_ACCEPT
    ELSE IF byte \in 194..223 THEN Utf8State(1, 128, 191)
    ELSE IF byte = 224 THEN Utf8State(2, 160, 191)
    ELSE IF byte = 237 THEN Utf8State(2, 128, 159)
    ELSE IF byte \in 225..239 THEN Utf8State(2, 128, 191)
    ELSE IF byte = 240 THEN Utf8State(3, 144, 191)
    ELSE IF byte \in 241..243 THEN Utf8State(3, 128, 191)
    ELSE IF byte = 244 THEN Utf8State(3, 128, 143)
    ELSE UTF8_REJECT

decode(state, byte) ==
    IF state.n = -1 THEN UTF8_REJECT
    ELSE IF state.n = 0 THEN utf8Lead(byte)
    ELSE IF byte \in state.lo..state.hi THEN Utf8State(state.n - 1, 128, 191)
    ELSE UTF8_REJECT

\* dump_escaped with the strict error handler: the string is written when
\* the decoder ends between sequences, else type_error.316 is thrown
\* (invalid UTF-8 byte, or incomplete UTF-8 string at the last byte)
dumpEscapedThrows(s) ==
    /\ s \in DOMAIN NonAsciiBytes
    /\ LET bytes == NonAsciiBytes[s]
           run[i \in 0..Len(bytes)] ==
               IF i = 0 THEN UTF8_ACCEPT ELSE decode(run[i - 1], bytes[i])
       IN  run[Len(bytes)] # UTF8_ACCEPT

\* the strings of the document that are not literals of fxexport.cpp, and
\* the one literal with a byte above 0x7F
documentStrings(doc) ==
    {doc["meta"]["platform"], doc["meta"]["product"],
     doc["meta"]["sampleUnits"]["threadCPUDelta"]}
    \cup (IF "importedFrom" \in DOMAIN doc["meta"]
          THEN {doc["meta"]["importedFrom"]} ELSE {})
    \cup (IF "threads" \in DOMAIN doc
          THEN UNION {{doc["threads"][i]["name"], doc["threads"][i]["processName"]} :
                         i \in 1..Len(doc["threads"])}
          ELSE {})
    \cup {doc["shared"]["stringArray"][i] : i \in 1..Len(doc["shared"]["stringArray"])}

dumpThrows(doc) == \E s \in documentStrings(doc) : dumpEscapedThrows(s)

\* main from fopen to its end, on the finished document: output is -o
\* being given (else the document goes to stdout).  file is what the run
\* leaves at the -o path: "unopened" when fopen gave nothing (return 1),
\* "empty" when dump threw after fopen had created or truncated the file
\* (nothing catches the exception: std::terminate), "document" after
\* fwrite and fclose (return 0); "none" without -o
writeDocument(doc, output, fopenOk) ==
    IF output /\ ~fopenOk THEN [pc |-> "failed", file |-> "unopened"]
    ELSE IF dumpThrows(doc)
    THEN [pc |-> "aborted", file |-> IF output THEN "empty" ELSE "none"]
    ELSE [pc |-> "written", file |-> IF output THEN "document" ELSE "none"]

Init ==
    /\ capture = NoCapture
    /\ profile = profileMeta(NoHeader)
    /\ st = EmptyStringTable
    /\ lt = EmptyLibTable
    /\ tt = EmptyThreadTables
    /\ pc = "zones"
    /\ thread = 1
    /\ fed = [samples |-> 0, events |-> 0, calls |-> 0]
    /\ emitted = NoJson
    /\ call = NoCall
    /\ reader = ReaderReady

\* ------------------------------------------------------------------------
\* Thread emission: for every thread of the reader a fresh ThreadTables and
\* the collectors in the order zones, messages, locks, samples, allocations
\* and, on the first thread only, frames; then the tables are serialised.
\* The string and library tables live across threads.  The messages, the
\* lock map and the frames belong to the reader, the same for every thread;
\* thread k of the reader has the id DecompressThread(k - 1).
\* ------------------------------------------------------------------------
messageCategory == 5
frameCategory == 6

\* worker.GetMessages(), worker.GetLockMap(), worker.GetFramesBase()
TraceMessages ==
    << [time |-> 1500000, text |-> "hello", color |-> 255 * 65536, thread |-> 0],
       NullMessage,
       [time |-> 500000, text |-> "bye", color |-> 0, thread |-> 1] >>

TraceLockMap ==
    << [lockId |-> 4, valid |-> TRUE, threadMap |-> <<<<101, 0>>, <<100, 1>>>>,
        customActive |-> FALSE, customName |-> "mtx", function |-> "lockFn",
        timeline |-> << [time |-> 1000000, type |-> WaitShared, thread |-> 1],
                        [time |-> 2000000, type |-> Obtain, thread |-> 0],
                        [time |-> 3000000, type |-> ObtainShared, thread |-> 1] >>] >>

TraceFrames ==
    [name |-> "Frame", frames |-> << [start |-> 1000000, end |-> 3000000],
                                     [start |-> 3000000, end |-> -1] >>]

CollectZones ==
    /\ pc = "zones"
    /\ \E zones \in ZoneInputs :
          LET c == collectZones(ctx, zones, userCategory)
          IN  /\ st' = c.st
              /\ lt' = c.lt
              /\ tt' = c.tt
    /\ pc' = "messages"
    /\ UNCHANGED <<reader, thread, fed, emitted, call, profile, capture>>

ProcessMessages ==
    /\ pc = "messages"
    /\ \E c \in {processMessages(ctx, TraceMessages, messageCategory,
                                 DecompressThread(thread - 1))} :
          /\ st' = c.st
          /\ lt' = c.lt
          /\ tt' = c.tt
    /\ pc' = "locks"
    /\ UNCHANGED <<reader, thread, fed, emitted, call, profile, capture>>

ProcessLocks ==
    /\ pc = "locks"
    /\ \E c \in {processLocks(ctx, TraceLockMap, lockCategory,
                              DecompressThread(thread - 1))} :
          /\ st' = c.st
          /\ lt' = c.lt
          /\ tt' = c.tt
    /\ pc' = "samples"
    /\ UNCHANGED <<reader, thread, fed, emitted, call, profile, capture>>

ProcessSamples ==
    /\ pc = "samples"
    /\ \E samples \in SeqsUpTo(SampleInputs, MaxSamples - fed.samples) :
          LET c == processSamples(ctx, samples, userCategory, kernelCategory)
          IN  /\ st' = c.st
              /\ lt' = c.lt
              /\ tt' = c.tt
              /\ fed' = [fed EXCEPT !.samples = @ + Len(samples)]
    /\ pc' = "allocations"
    /\ UNCHANGED <<reader, thread, emitted, call, profile, capture>>

ProcessAllocations ==
    /\ pc = "allocations"
    /\ \E events \in SeqsUpTo(MemEventInputs, MaxEvents - fed.events) :
          LET c == processAllocations(ctx, events, memoryCategory)
          IN  /\ st' = c.st
              /\ lt' = c.lt
              /\ tt' = c.tt
              /\ fed' = [fed EXCEPT !.events = @ + Len(events)]
    /\ pc' = IF thread = 1 THEN "frames" ELSE "serialise"
    /\ UNCHANGED <<reader, thread, emitted, call, profile, capture>>

ProcessFrames ==
    /\ pc = "frames"
    /\ \E c \in {processFrames(ctx, TraceFrames, frameCategory)} :
          /\ st' = c.st
          /\ lt' = c.lt
          /\ tt' = c.tt
    /\ pc' = "serialise"
    /\ UNCHANGED <<reader, thread, fed, emitted, call, profile, capture>>

ThreadToJson ==
    /\ pc = "serialise"
    /\ emitted' = [thread            |-> threadToJson(tt),
                   nativeAllocations |-> nativeAllocationsToJson(tt)]
    /\ pc' = "emitted"
    /\ UNCHANGED <<reader, st, lt, tt, thread, fed, call, profile, capture>>

NewThread ==
    /\ pc = "emitted"
    /\ thread < MaxThreads
    /\ tt' = EmptyThreadTables
    /\ emitted' = NoJson
    /\ thread' = thread + 1
    /\ pc' = "zones"
    /\ UNCHANGED <<reader, st, lt, fed, call, profile, capture>>

Next ==
    \/ CollectZones
    \/ ProcessMessages
    \/ ProcessLocks
    \/ ProcessSamples
    \/ ProcessAllocations
    \/ ProcessFrames
    \/ ThreadToJson
    \/ NewThread

Spec == Init /\ [][Next]_vars

\* ------------------------------------------------------------------------
\* main (fxexport.cpp): the reader's background thread sets its readiness
\* flags while main polls them, sleeping 10 ms after each miss; then main
\* builds the document thread by thread (zones, samples, serialisation) and
\* writes it, or returns 1 when the output file cannot be opened.  The
\* second wait loop is the build with statistics (TRACY_NO_STATISTICS not
\* defined), the default.
\* ------------------------------------------------------------------------
InitMain ==
    /\ capture = NoCapture
    /\ profile = NoJson
    /\ st = EmptyStringTable
    /\ lt = EmptyLibTable
    /\ tt = EmptyThreadTables
    /\ pc = "pollZones"
    /\ thread = 1
    /\ fed = [samples |-> 0, events |-> 0, calls |-> 0]
    /\ emitted = NoJson
    /\ call = NoCall
    /\ reader = ReaderStarting

\* the reader's background thread
ReaderSourceLocationZones ==
    /\ ~reader.sourceLocationZonesReady
    /\ reader' = [reader EXCEPT !.sourceLocationZonesReady = TRUE]
    /\ UNCHANGED <<st, lt, tt, pc, thread, fed, emitted, call, profile, capture>>

ReaderCallstackSamples ==
    /\ ~reader.callstackSamplesReady
    /\ reader' = [reader EXCEPT !.callstackSamplesReady = TRUE]
    /\ UNCHANGED <<st, lt, tt, pc, thread, fed, emitted, call, profile, capture>>

\* while (!worker.AreSourceLocationZonesReady())
pollSourceLocationZones(r) ==
    IF r.sourceLocationZonesReady THEN "pollSamples" ELSE "sleepZones"

\* while (!worker.AreCallstackSamplesReady())
pollCallstackSamples(r) ==
    IF r.callstackSamplesReady THEN "meta" ELSE "sleepSamples"

PollSourceLocationZones ==
    /\ pc = "pollZones"
    /\ pc' = pollSourceLocationZones(reader)
    /\ UNCHANGED <<st, lt, tt, thread, fed, emitted, call, reader, profile, capture>>

SleepSourceLocationZones ==
    /\ pc = "sleepZones"
    /\ pc' = "pollZones"
    /\ UNCHANGED <<st, lt, tt, thread, fed, emitted, call, reader, profile, capture>>

PollCallstackSamples ==
    /\ pc = "pollSamples"
    /\ pc' = pollCallstackSamples(reader)
    /\ UNCHANGED <<st, lt, tt, thread, fed, emitted, call, reader, profile, capture>>

SleepCallstackSamples ==
    /\ pc = "sleepSamples"
    /\ pc' = "pollSamples"
    /\ UNCHANGED <<st, lt, tt, thread, fed, emitted, call, reader, profile, capture>>

\* td->samples of a thread of the trace
Sample(time, callstack) == [time |-> time, callstack |-> callstack]

\* a thread of worker.GetThreadData(): td->id, worker.GetThreadName(td->id),
\* worker.GetPidFromTid(td->id), td->timeline and td->samples
Thread(id, name, pidFromTid, timeline, samples) ==
    [id |-> id, name |-> name, pidFromTid |-> pidFromTid,
     timeline |-> timeline, samples |-> samples]

ThreadInputs ==
    { Thread(GetPid, "Main thread", 0, <<>>, <<>>),
      Thread(8, "worker", 0,
             << Zone(0, 10000000, "work", NullPtr, <<0, 0, 0>>,
                     << Zone(2000000, 8000000, "inner", "txt", <<255, 0, 0>>, <<>>) >>) >>,
             <<Sample(1000000, 1)>>),
      Thread(9, NullPtr, 9,
             << Zone(1000000, -1, "open", NullPtr, <<0, 0, 0>>,
                     << Zone(2000000, 3000000, "closed", NullPtr, <<255, 255, 255>>, <<>>) >>) >>,
             <<Sample(2500000, 1), Sample(1000000, 2)>>),
      Thread(7, "Main thread", 9, <<>>, <<Sample(1000000, 4), Sample(1000000, 5)>>),
      Thread(8, "io", 0, <<>>, <<Sample(1000000, 0)>>),
      Thread(7, "late", 0,
             << Zone(3000000, 4000000, "TracyZone", "work", <<0, 0, 0>>, <<>>) >>,
             <<Sample(7, 3), Sample(2, 2), Sample(2500000, 2)>>),
      Thread(8, Latin1Name, 0, <<>>, <<>>) }

\* profile["meta"] and profile["libs"] are built from the capture header
BuildMeta ==
    /\ pc = "meta"
    /\ \E h \in HeaderInputs : profile' = profileMeta(h)
    /\ pc' = "threads"
    /\ UNCHANGED <<st, lt, tt, thread, fed, emitted, call, reader, capture>>

\* one pass of the loop over worker.GetThreadData(), for the next thread of
\* the trace: its zones, markers and samples are collected into tables of
\* its own and the document's string table, and its object is appended to
\* profile["threads"]; h is the header the meta was built from
ExportThread ==
    /\ pc = "threads"
    /\ thread <= MaxThreads
    /\ \E h \in HeaderInputs, td \in ThreadInputs :
          /\ profile["meta"] = metaToJson(h)
          /\ \E r \in {exportThread([profile |-> profile, st |-> st], td,
                                    GetPid, h.captureProgram)} :
                /\ profile' = r.profile
                /\ st' = r.st
    /\ thread' = thread + 1
    /\ UNCHANGED <<pc, lt, tt, fed, emitted, call, reader, capture>>

\* the thread loop is over (at once for a trace without threads):
\* profile["shared"], fopen (return 1 when it gave no file), profile.dump()
\* (the process is terminated when it throws), fwrite and return 0; call
\* records what is left at the output path
WriteDocument ==
    /\ pc = "threads"
    /\ profile' = profileShared(profile, st)
    /\ \E output \in BOOLEAN, fopenOk \in BOOLEAN :
          \E r \in {writeDocument(profileShared(profile, st), output, fopenOk)} :
             /\ pc' = r.pc
             /\ call' = [op |-> "main", output |-> output, file |-> r.file]
    /\ UNCHANGED <<st, lt, tt, thread, fed, emitted, reader, capture>>

Exporter ==
    \/ PollSourceLocationZones
    \/ SleepSourceLocationZones
    \/ PollCallstackSamples
    \/ SleepCallstackSamples
    \/ BuildMeta
    \/ ExportThread
    \/ WriteDocument

NextMain ==
    \/ ReaderSourceLocationZones
    \/ ReaderCallstackSamples
    \/ Exporter

SpecMain == InitMain /\ [][NextMain]_vars

\* main is a sequential program on its own thread and sleep_for returns:
\* the exporter's next step is taken whenever it stays enabled
LiveMain == SpecMain /\ WF_vars(Exporter)

\* ------------------------------------------------------------------------
\* Unit harnesses: the table primitives called directly, in any order,
\* on inputs drawn from small sets; call records the last call
\* ------------------------------------------------------------------------
StringInputs == {NullPtr, "", "work", "TracyZone", "a.c", "A"}

AddrTop == <<65535, 65535, 65535, 65520>>

LibNameInputs == {NullPtr, "", "libA", "libB"}
LibAddrInputs == {Addr0, AddrA, AddrB, AddrTop}
LibSizeInputs == {0, 32, 8192}

\* the arguments of getOrCreateFrame for every sub-frame of the trace
FrameInputs ==
    UNION { LET fd == GetCallstackFrame(id)
            IN  {[symAddr     |-> fd.data[j].symAddr,
                  name        |-> fd.data[j].name,
                  fileName    |-> fd.data[j].file,
                  line        |-> fd.data[j].line,
                  inlineDepth |-> Len(fd.data) - j,
                  imageName   |-> fd.imageName,
                  symSize     |-> GetSymbolData(fd.data[j].symAddr).size] :
                    j \in 1..Len(fd.data)} :
            id \in {1, 2, 4, 5, 7} }

StackFrameInputs == {0, 1, 65536}

TStringIntern ==
    /\ fed.calls < MaxCalls
    /\ \E s \in StringInputs :
          LET r == StringTable_intern_cstr(st, s)
          IN  /\ st' = r.st
              /\ call' = [op |-> "StringTable_intern", s |-> s, ret |-> r.ret,
                          before |-> st]
    /\ fed' = [fed EXCEPT !.calls = @ + 1]
    /\ UNCHANGED <<reader, lt, tt, pc, thread, emitted, profile, capture>>

TLibIntern ==
    /\ fed.calls < MaxCalls
    /\ \E name \in LibNameInputs, addr \in LibAddrInputs, size \in LibSizeInputs :
          LET r == LibTable_intern(lt, name, addr, size)
          IN  /\ lt' = r.lt
              /\ call' = [op |-> "LibTable_intern", name |-> name, addr |-> addr,
                          size |-> size, ret |-> r.ret, before |-> lt]
    /\ fed' = [fed EXCEPT !.calls = @ + 1]
    /\ UNCHANGED <<reader, st, tt, pc, thread, emitted, profile, capture>>

\* the calls so far that went to getOrCreateResource, getOrCreateNativeSymbol
\* or getOrCreateFunc themselves, not through getOrCreateFrame
DirectCalls == IF "direct" \in DOMAIN call THEN call.direct ELSE 0

TGetOrCreateFrame ==
    /\ fed.calls < MaxCalls
    /\ \E i \in FrameInputs :
          LET r == getOrCreateFrame(ctx, i.symAddr, i.name, i.fileName, i.line, 0,
                                    i.inlineDepth, i.imageName, i.symSize,
                                    userCategory)
          IN  /\ st' = r.c.st
              /\ lt' = r.c.lt
              /\ tt' = r.c.tt
              /\ call' = [op |-> "getOrCreateFrame", symAddr |-> i.symAddr,
                          inlineDepth |-> i.inlineDepth, ret |-> r.ret,
                          rows |-> Len(tt.frames), direct |-> DirectCalls]
    /\ fed' = [fed EXCEPT !.calls = @ + 1]
    /\ UNCHANGED <<reader, pc, thread, emitted, profile, capture>>

TGetOrCreateStack ==
    /\ fed.calls < MaxCalls
    /\ \E prefix \in -1..(Len(tt.stacks) - 1), frame \in StackFrameInputs :
          LET r == getOrCreateStack(tt, prefix, frame)
          IN  /\ tt' = r.tt
              /\ call' = [op |-> "getOrCreateStack", prefix |-> prefix,
                          frame |-> frame, ret |-> r.ret, rows |-> Len(tt.stacks)]
    /\ fed' = [fed EXCEPT !.calls = @ + 1]
    /\ UNCHANGED <<reader, st, lt, pc, thread, emitted, profile, capture>>

\* the three lookups getOrCreateFrame is built from, called on their own:
\* a resource by its library name, a native symbol and a func by the
\* arguments of the frames that are no inlined ones
SymbolInputs == {i \in FrameInputs : i.inlineDepth = 0}

TGetOrCreateResource ==
    /\ fed.calls < MaxCalls
    /\ \E libName \in LibNameInputs :
          LET r == getOrCreateResource(ctx, libName)
          IN  /\ st' = r.c.st
              /\ lt' = r.c.lt
              /\ tt' = r.c.tt
              /\ call' = [op |-> "getOrCreateResource", libName |-> libName,
                          ret |-> r.ret, direct |-> DirectCalls + 1]
    /\ fed' = [fed EXCEPT !.calls = @ + 1]
    /\ UNCHANGED <<reader, pc, thread, emitted, profile, capture>>

TGetOrCreateNativeSymbol ==
    /\ fed.calls < MaxCalls
    /\ \E i \in SymbolInputs :
          LET r == getOrCreateNativeSymbol(ctx, i.symAddr, i.name, i.imageName,
                                           i.symSize)
          IN  /\ st' = r.c.st
              /\ lt' = r.c.lt
              /\ tt' = r.c.tt
              /\ call' = [op |-> "getOrCreateNativeSymbol", symAddr |-> i.symAddr,
                          ret |-> r.ret, direct |-> DirectCalls + 1]
    /\ fed' = [fed EXCEPT !.calls = @ + 1]
    /\ UNCHANGED <<reader, pc, thread, emitted, profile, capture>>

TGetOrCreateFunc ==
    /\ fed.calls < MaxCalls
    /\ \E i \in SymbolInputs, resourceIdx \in {-1, 0} :
          LET r == getOrCreateFunc(ctx, i.symAddr, i.name, i.fileName, i.line,
                                   resourceIdx)
          IN  /\ st' = r.c.st
              /\ lt' = r.c.lt
              /\ tt' = r.c.tt
              /\ call' = [op |-> "getOrCreateFunc", symAddr |-> i.symAddr,
                          resourceIdx |-> resourceIdx, ret |-> r.ret,
                          direct |-> DirectCalls + 1]
    /\ fed' = [fed EXCEPT !.calls = @ + 1]
    /\ UNCHANGED <<reader, pc, thread, emitted, profile, capture>>

\* sample times a few nanoseconds apart next to millisecond ones
SampleTimesFine == {2, 7, 1000000, 2500000}

TProcessSamples ==
    /\ fed.calls < MaxCalls
    /\ \E t \in SampleTimesFine, cs \in {0, 1} :
          LET c == processSamples(ctx, <<[time |-> t, callstack |-> cs]>>,
                                  userCategory, kernelCategory)
          IN  /\ st' = c.st
              /\ lt' = c.lt
              /\ tt' = c.tt
              /\ call' = [op |-> "processSamples", time |-> t, callstack |-> cs,
                          rows |-> Len(tt.samples)]
    /\ fed' = [fed EXCEPT !.calls = @ + 1]
    /\ UNCHANGED <<reader, pc, thread, emitted, profile, capture>>

TThreadToJson ==
    /\ tt.samples # <<>>
    /\ emitted' = [thread            |-> threadToJson(tt),
                   nativeAllocations |-> nativeAllocationsToJson(tt)]
    /\ call' = [op |-> "threadToJson"]
    /\ UNCHANGED <<reader, st, lt, tt, pc, thread, fed, profile, capture>>

\* memory events: freed after, at and before the alloc time, never freed,
\* and of size 0
AllocEvent(ta, tf, size, cs) ==
    [timeAlloc |-> ta, timeFree |-> tf, size |-> size, ptr |-> <<0, 0, 1, size>>,
     csAlloc |-> cs[1], csFree |-> cs[2], threadAlloc |-> 0, threadFree |-> 1]

AllocEventInputs ==
    { AllocEvent(1000000, -1, 64, <<1, 2>>),
      AllocEvent(1000000, 2500000, 64, <<1, 2>>),
      AllocEvent(2500000, 2500000, 32, <<0, 0>>),
      AllocEvent(2500000, 1000000, 32, <<2, 1>>),
      AllocEvent(1000000, 0, 16, <<0, 0>>),
      AllocEvent(2500000, -1, 0, <<0, 0>>) }

TProcessAllocations ==
    /\ fed.calls < MaxCalls
    /\ \E events \in SeqsUpTo(AllocEventInputs, Min(2, MaxCalls - fed.calls)) :
          LET c == processAllocations(ctx, events, memoryCategory)
          IN  /\ events # <<>>
              /\ st' = c.st
              /\ lt' = c.lt
              /\ tt' = c.tt
              /\ call' = [op |-> "processAllocations", events |-> events,
                          before |-> tt.allocations]
              /\ fed' = [fed EXCEPT !.calls = @ + Len(events)]
    /\ UNCHANGED <<reader, pc, thread, emitted, profile, capture>>

\* zones of a timeline: a closed leaf, a closed zone with a closed child, a
\* still-open zone with a closed child, a closed zone whose open child has
\* a closed child
ZoneTreeInputs ==
    { Zone(0, 1000000, "leaf", NullPtr, <<0, 0, 0>>, <<>>),
      Zone(0, 10000000, "work", NullPtr, <<0, 0, 0>>,
           << Zone(2000000, 8000000, "inner", "txt", <<255, 0, 0>>, <<>>) >>),
      Zone(1000000, -1, "open", NullPtr, <<0, 0, 0>>,
           << Zone(2000000, 3000000, "closed", NullPtr, <<0, 0, 0>>, <<>>) >>),
      Zone(0, 9000000, "outer", NullPtr, <<0, 0, 0>>,
           << Zone(1000000, -1, "open", NullPtr, <<0, 0, 0>>,
                   << Zone(2000000, 3000000, "closed", NullPtr, <<0, 0, 0>>, <<>>) >>) >>) }

TCollectZones ==
    /\ fed.calls < MaxCalls
    /\ \E zones \in SeqsUpTo(ZoneTreeInputs, Min(2, MaxCalls - fed.calls)) :
          LET c == collectZones(ctx, zones, userCategory)
          IN  /\ zones # <<>>
              /\ st' = c.st
              /\ lt' = c.lt
              /\ tt' = c.tt
              /\ call' = [op |-> "collectZones", zones |-> zones,
                          rows |-> Len(tt.markers)]
              /\ fed' = [fed EXCEPT !.calls = @ + Len(zones)]
    /\ UNCHANGED <<reader, pc, thread, emitted, profile, capture>>

\* GPU zones of a context's timeline: a closed leaf, a closed zone with a
\* closed child and a null pointer among its children, a zone without a
\* GPU end above a closed child, a zone without a source file
GpuZone(gpuStart, gpuEnd, name, file, child, children) ==
    [gpuStart |-> gpuStart, gpuEnd |-> gpuEnd,
     cpuStart |-> 900000, cpuEnd |-> 950000,
     name |-> name, file |-> file, function |-> "gpu", line |-> 3,
     child |-> child, children |-> children]

GpuZoneInputs ==
    { NullZone,
      GpuZone(1000000, 2000000, "draw", "g.c", -1, <<>>),
      GpuZone(0, 5000000, "pass", "g.c", 0,
              << GpuZone(1000000, 2000000, "draw", "g.c", -1, <<>>), NullZone >>),
      GpuZone(1000000, -1, "pending", "g.c", 1,
              << GpuZone(2000000, 3000000, "blit", "", -1, <<>>) >>) }

TCollectGpuZones ==
    /\ fed.calls < MaxCalls
    /\ \E zones \in SeqsUpTo(GpuZoneInputs, Min(2, MaxCalls - fed.calls)) :
          LET c == collectGpuZones(ctx, zones, gpuCategory)
          IN  /\ zones # <<>>
              /\ st' = c.st
              /\ lt' = c.lt
              /\ tt' = c.tt
              /\ call' = [op |-> "collectGpuZones", zones |-> zones,
                          rows |-> Len(tt.markers)]
              /\ fed' = [fed EXCEPT !.calls = @ + Len(zones)]
    /\ UNCHANGED <<reader, pc, thread, emitted, profile, capture>>

\* messages of the reader: with and without text, without colour (0), red,
\* white and a colour of which only the top byte is set, of the thread of
\* id 100 and of another one
MessageInputs ==
    {NullMessage} \cup
    [time : {1500000}, text : {"hello", NullPtr},
     color : {0, 255 * 65536, 2^24 - 1, 2^24}, thread : {0, 1}]

TProcessMessages ==
    /\ fed.calls < MaxCalls
    /\ \E messages \in SeqsUpTo(MessageInputs, Min(2, MaxCalls - fed.calls)) :
          LET c == processMessages(ctx, messages, messageCategory, DecompressThread(0))
          IN  /\ messages # <<>>
              /\ st' = c.st
              /\ lt' = c.lt
              /\ tt' = c.tt
              /\ call' = [op |-> "processMessages", messages |-> messages,
                          threadId |-> DecompressThread(0),
                          rows |-> Len(tt.markers)]
              /\ fed' = [fed EXCEPT !.calls = @ + Len(messages)]
    /\ UNCHANGED <<reader, pc, thread, emitted, profile, capture>>

\* the frames of the reader: none at all, and series of frames of 2 ms, of
\* 16.666667 ms, without an end, of no length and ending before their start
FramesBaseInputs ==
    {NoFrames} \cup
    [name : {"Frame"},
     frames : SeqsUpTo({ [start |-> 1000000, end |-> 3000000],
                         [start |-> 0, end |-> 16666667],
                         [start |-> 3000000, end |-> -1],
                         [start |-> 3000000, end |-> 3000000],
                         [start |-> 4000000, end |-> 1000000] }, 2)]

TProcessFrames ==
    /\ fed.calls < MaxCalls
    /\ \E framesBase \in FramesBaseInputs :
          LET c == processFrames(ctx, framesBase, frameCategory)
          IN  /\ st' = c.st
              /\ lt' = c.lt
              /\ tt' = c.tt
              /\ call' = [op |-> "processFrames", framesBase |-> framesBase,
                          rows |-> Len(tt.markers)]
              /\ fed' = [fed EXCEPT !.calls = @ + 1]
    /\ UNCHANGED <<reader, pc, thread, emitted, profile, capture>>

\* locks of the lock map, for the thread of id 100 (bit 0 in most locks)
LockEv(time, type, threadBit) == [time |-> time, type |-> type, thread |-> threadBit]

Lock(lockId, valid, threadMap, customActive, timeline) ==
    [lockId |-> lockId, valid |-> valid, threadMap |-> threadMap,
     customActive |-> customActive, customName |-> "mtx", function |-> "lockFn",
     timeline |-> timeline]

LockInputs ==
    { Lock(1, TRUE, <<<<100, 0>>>>, FALSE,
           <<LockEv(1000000, Wait, 0), LockEv(2000000, Obtain, 0),
             LockEv(3000000, Release, 0)>>),
      Lock(2, TRUE, <<<<100, 0>>>>, TRUE,
           <<LockEv(1000000, Wait, 0), LockEv(2000000, WaitShared, 0),
             LockEv(3000000, ObtainShared, 0), LockEv(4000000, Obtain, 0)>>),
      Lock(3, TRUE, <<<<100, 0>>>>, FALSE,
           <<LockEv(1000000, Obtain, 0), LockEv(2000000, Release, 0)>>),
      Lock(4, TRUE, <<<<101, 0>>, <<100, 1>>>>, FALSE,
           <<LockEv(1000000, WaitShared, 1), LockEv(2000000, Obtain, 0),
             LockEv(2500000, Wait, 0), LockEv(3000000, ObtainShared, 1),
             LockEv(4000000, ReleaseShared, 1)>>),
      Lock(5, TRUE, <<<<100, 0>>>>, FALSE,
           <<LockEv(1000000, Wait, 0), LockEv(2000000, Release, 0),
             LockEv(3000000, ReleaseShared, 0), LockEv(4000000, Obtain, 0)>>),
      Lock(6, TRUE, <<<<100, 0>>>>, TRUE,
           <<LockEv(0, Wait, 0), LockEv(1000000, Obtain, 0),
             LockEv(2000000, Wait, 0), LockEv(3000000, Obtain, 0)>>),
      Lock(7, FALSE, <<<<100, 0>>>>, FALSE,
           <<LockEv(1000000, Wait, 0), LockEv(2000000, Obtain, 0)>>),
      Lock(8, TRUE, <<<<101, 0>>>>, FALSE,
           <<LockEv(1000000, Wait, 0), LockEv(2000000, Obtain, 0)>>),
      Lock(9, TRUE, <<<<100, 0>>>>, FALSE,
           <<LockEv(500000, Wait, 0)>>) }


TProcessLocks ==
    /\ fed.calls < MaxCalls
    /\ \E lockMaps \in SeqsUpTo(LockInputs, Min(2, MaxCalls - fed.calls)) :
          LET c == processLocks(ctx, lockMaps, lockCategory, DecompressThread(0))
          IN  /\ lockMaps # <<>>
              /\ st' = c.st
              /\ lt' = c.lt
              /\ tt' = c.tt
              /\ call' = [op |-> "processLocks", locks |-> lockMaps,
                          threadId |-> DecompressThread(0),
                          rows |-> Len(tt.markers)]
              /\ fed' = [fed EXCEPT !.calls = @ + Len(lockMaps)]
    /\ UNCHANGED <<reader, pc, thread, emitted, profile, capture>>

\* callstacks handed to one thread builder, one sample or one memory event
\* a call; call.all is every callstack index handed over so far
CallstacksSoFar ==
    IF call.op \in {"sampleStack", "allocStack"} THEN call.all ELSE <<>>

TSampleStack ==
    /\ fed.calls < MaxCalls
    /\ \E cs \in CallstackIds :
          LET c == processSamples(ctx, <<[time |-> 1000000, callstack |-> cs]>>,
                                  userCategory, kernelCategory)
          IN  /\ st' = c.st
              /\ lt' = c.lt
              /\ tt' = c.tt
              /\ call' = [op |-> "sampleStack", callstack |-> cs,
                          rows |-> Len(tt.samples),
                          all |-> Append(CallstacksSoFar, cs)]
    /\ fed' = [fed EXCEPT !.calls = @ + 1]
    /\ UNCHANGED <<reader, pc, thread, emitted, profile, capture>>

AllocStackInputs ==
    { AllocEvent(1000000, -1, 64, <<1, 0>>),
      AllocEvent(1000000, 2500000, 64, <<2, 1>>),
      AllocEvent(1000000, 2500000, 32, <<4, 3>>),
      AllocEvent(1000000, -1, 32, <<5, 0>>) }

TAllocStack ==
    /\ fed.calls < MaxCalls
    /\ \E ev \in AllocStackInputs :
          LET c == processAllocations(ctx, <<ev>>, memoryCategory)
          IN  /\ st' = c.st
              /\ lt' = c.lt
              /\ tt' = c.tt
              /\ call' = [op |-> "allocStack", event |-> ev,
                          all |-> CallstacksSoFar \o <<ev.csAlloc>>
                                  \o (IF ev.timeFree >= 0 THEN <<ev.csFree>>
                                      ELSE <<>>)]
    /\ fed' = [fed EXCEPT !.calls = @ + 1]
    /\ UNCHANGED <<reader, pc, thread, emitted, profile, capture>>

\* plots of worker.GetPlots(): values 1.0, 2.5, 0.000002 and 0.000007
PlotVal(ms, frac) == Binary64([ms |-> ms, frac |-> frac])

PlotItem(time, val) == [time |-> time, val |-> val]

Plot(name, type, data) == [present |-> TRUE, name |-> name, type |-> type, data |-> data]

PlotInputs ==
    { [present |-> FALSE, name |-> "", type |-> PlotUser, data |-> <<>>],
      Plot("empty", PlotUser, <<>>),
      Plot("one", PlotPower, <<PlotItem(1000000, PlotVal(2, 500000))>>),
      Plot("fps", PlotUser, <<PlotItem(1000000, PlotVal(1, 0)),
                              PlotItem(2000000, PlotVal(2, 500000)),
                              PlotItem(3000000, PlotVal(1, 0))>>),
      Plot("mem", PlotMemory, <<PlotItem(0, PlotVal(0, 2)),
                                PlotItem(1000000, PlotVal(0, 7))>>),
      Plot("cpu", PlotSysTime, <<PlotItem(1000000, PlotVal(1, 0)),
                                 PlotItem(2000000, PlotVal(2, 500000))>>),
      Plot("zone", PlotZone, <<PlotItem(1000000, PlotVal(0, 0)),
                               PlotItem(2000000, PlotVal(1, 0))>>) }

MainThreadIndexInputs == {0, 1}

TBuildCounters ==
    /\ fed.calls < MaxCalls
    /\ \E plots \in SeqsUpTo(PlotInputs, 2), mainThreadIndex \in MainThreadIndexInputs :
          /\ emitted' = [counters |-> buildCounters(plots, mainThreadIndex)]
          /\ call' = [op |-> "buildCounters", plots |-> plots,
                      mainThreadIndex |-> mainThreadIndex]
    /\ fed' = [fed EXCEPT !.calls = @ + 1]
    /\ UNCHANGED <<reader, st, lt, tt, pc, thread, profile, capture>>

\* worker.GetThreadData().size(): the threads of the trace, one object of
\* the document's threads array each
ThreadCountInputs == 0..MaxThreads

TBuild_counters ==
    /\ fed.calls < MaxCalls
    /\ \E plots \in SeqsUpTo(PlotInputs, 2), threads \in ThreadCountInputs :
          /\ emitted' = [counters |-> build_counters(plots)]
          /\ call' = [op |-> "build_counters", plots |-> plots,
                      threads |-> threads]
    /\ fed' = [fed EXCEPT !.calls = @ + 1]
    /\ UNCHANGED <<reader, st, lt, tt, pc, thread, profile, capture>>

\* worker.GetThreadName(td->id), td->id, worker.GetPidFromTid(td->id),
\* worker.GetPid() and worker.GetCaptureProgram() of a thread of the trace
ThreadNameInputs == {NullPtr, "Main thread", "worker"}
TidInputs == {7, 8}
PidFromTidInputs == {0, 7, 9}
CapturePidInputs == {7, 9}
CaptureProgramInputs == {"", "app"}
\* main's minTime and maxTime (ns) when the thread object is built
ThreadTimeInputs == {<<0, 0>>, <<1000000, 2500000>>}

TThreadHead ==
    /\ fed.calls < MaxCalls
    /\ \E threadName \in ThreadNameInputs, tid \in TidInputs,
          pidFromTid \in PidFromTidInputs, capturePid \in CapturePidInputs,
          captureProgram \in CaptureProgramInputs, times \in ThreadTimeInputs :
          /\ emitted' = threadHead(threadName, tid, pidFromTid, capturePid,
                                 captureProgram, times[1], times[2])
          /\ call' = [op |-> "threadHead", threadName |-> threadName, tid |-> tid,
                      pidFromTid |-> pidFromTid, capturePid |-> capturePid]
    /\ fed' = [fed EXCEPT !.calls = @ + 1]
    /\ UNCHANGED <<reader, st, lt, tt, pc, thread, profile, capture>>

\* td.samples of one thread, handed to processSamples in one call: samples
\* without a callstack (0), with an empty callstack (3), with a callstack
\* holding an entry without frame data (4) and well-formed ones (1)
SampleBatchInputs == [time : SampleTimes, callstack : {0, 1, 3, 4}]

TSampleBatch ==
    /\ fed.samples = 0
    /\ \E samples \in SeqsUpTo(SampleBatchInputs, MaxSamples + 1) :
          LET c == processSamples(ctx, samples, userCategory, kernelCategory)
          IN  /\ samples # <<>>
              /\ st' = c.st
              /\ lt' = c.lt
              /\ tt' = c.tt
              /\ call' = [op |-> "sampleBatch", samples |-> samples]
              /\ fed' = [fed EXCEPT !.samples = Len(samples)]
    /\ UNCHANGED <<reader, pc, thread, emitted, profile, capture>>

\* ------------------------------------------------------------------------
\* The capture tool (capture.cpp): main, the SIGINT handler and the worker's
\* network thread.  capture is the run: pc (main's position), args, file
\* (what is at the output path: "absent", "old" for a file that was there
\* before the run, "empty", "trace"), opened (main opened the output path),
\* the worker (handshake, hasData, connected; handshake "None" before the
\* worker is constructed), handler (SigInt installed), s_disconnect,
\* disconnects (calls of worker.Disconnect()), signalled (SigInt ran),
\* saved and status (the exit status, -1 while running).
\* args is the command line as getopt reads it: rejected when it holds an
\* option that is not in "a:o:p:fs:m:A:n:" or an option without its
\* argument, -A, -o and -f given or not, the value of -s, and existed, a
\* file being at the -o path when the run starts.
\* ------------------------------------------------------------------------
CaptureArgs ==
    [rejected : BOOLEAN, analyzeInput : BOOLEAN, output : BOOLEAN,
     overwrite : BOOLEAN, seconds : {-1, 1}, existed : BOOLEAN]

CaptureStart(args) ==
    [pc |-> "start", args |-> args,
     file |-> IF args.existed THEN "old" ELSE "absent", opened |-> FALSE,
     handshake |-> "None", hasData |-> FALSE, connected |-> FALSE,
     handler |-> FALSE, s_disconnect |-> FALSE, disconnects |-> 0,
     signalled |-> FALSE, saved |-> FALSE, status |-> -1]

InitCapture ==
    /\ capture \in {CaptureStart(args) : args \in CaptureArgs}
    /\ profile = NoJson
    /\ st = EmptyStringTable
    /\ lt = EmptyLibTable
    /\ tt = EmptyThreadTables
    /\ pc = "none"
    /\ thread = 1
    /\ fed = [samples |-> 0, events |-> 0, calls |-> 0]
    /\ emitted = NoJson
    /\ call = NoCall
    /\ reader = ReaderStarting

exit(c, status) == [c EXCEPT !.pc = "exit", !.status = status]

\* main from the option loop up to fclose(test): an option getopt rejects
\* ends in Usage (exit 1) inside the loop, whatever the other options are;
\* -A returns the result of AnalyzeTrace, a missing -o ends in Usage
\* (exit 1), an existing output without -f returns 4, a failed fopen
\* returns 5; fopen(output, "wb") leaves an empty file
startUp(c, analyzeOk, fopenOk) ==
    IF c.args.rejected THEN exit(c, 1)
    ELSE IF c.args.analyzeInput THEN exit(c, IF analyzeOk THEN 0 ELSE 1)
    ELSE IF ~c.args.output THEN exit(c, 1)
    ELSE IF c.file # "absent" /\ ~c.args.overwrite THEN exit(c, 4)
    ELSE IF ~fopenOk THEN exit(c, 5)
    ELSE [c EXCEPT !.pc = "unlink", !.file = "empty", !.opened = TRUE]

\* unlink(output); tracy::Worker worker(address, port, memoryLimit).  main
\* does not look at the result of unlink: when it fails (the directory is
\* not writable by the caller) the file emptied by fopen stays in place
connect(c, unlinked) ==
    [c EXCEPT !.pc = "handshake",
              !.file = IF unlinked THEN "absent" ELSE @,
              !.handshake = "Pending"]

\* one look of while (!worker.HasData()) at the worker; on data the loop is
\* left and SigInt installed
pollHandshake(c) ==
    IF c.hasData THEN [c EXCEPT !.pc = "loopTest", !.handler = TRUE]
    ELSE IF c.handshake = "ProtocolMismatch" THEN exit(c, 1)
    ELSE IF c.handshake = "NotAvailable" THEN exit(c, 2)
    ELSE IF c.handshake = "Dropped" THEN exit(c, 3)
    ELSE c

\* while (worker.IsConnected())
loopTest(c) == [c EXCEPT !.pc = IF c.connected THEN "checkFlag" ELSE "save"]

\* the polling loop without its look at s_disconnect
checkFlag_mut(c) == [c EXCEPT !.pc = "progress"]

\* if (s_disconnect.load(std::memory_order_relaxed))
checkFlag(c) == [c EXCEPT !.pc = IF c.s_disconnect THEN "disconnect" ELSE "progress"]

\* worker.Disconnect()
disconnect(c) == [c EXCEPT !.pc = "reset", !.disconnects = @ + 1]

\* s_disconnect.store(false, std::memory_order_relaxed); break
resetFlag(c) == [c EXCEPT !.pc = "save", !.s_disconnect = FALSE]

\* the progress line and sleep_for(100 ms)
progress(c) == [c EXCEPT !.pc = IF c.args.seconds # -1 THEN "timeout" ELSE "loopTest"]

\* if (dur >= seconds) s_disconnect.store(true, std::memory_order_relaxed)
timeoutCheck(c, expired) ==
    [c EXCEPT !.pc = "loopTest", !.s_disconnect = IF expired THEN TRUE ELSE @]

\* FileWrite::Open(output, ...), worker.Write when it gave a file; return 0
save(c, opened) ==
    [exit(c, 0) EXCEPT !.file = IF opened THEN "trace" ELSE @,
                       !.opened = IF opened THEN TRUE ELSE @,
                       !.saved = opened]

exporterVars == <<st, lt, tt, pc, thread, fed, emitted, call, reader, profile>>

StartUp ==
    /\ capture.pc = "start"
    /\ \E analyzeOk \in BOOLEAN, fopenOk \in BOOLEAN :
          capture' = startUp(capture, analyzeOk, fopenOk)
    /\ UNCHANGED exporterVars

Connect ==
    /\ capture.pc = "unlink"
    /\ \E unlinked \in BOOLEAN : capture' = connect(capture, unlinked)
    /\ UNCHANGED exporterVars

\* a look that finds neither data nor a failed handshake sleeps 100 ms and
\* looks again: it changes nothing
PollHandshake ==
    /\ capture.pc = "handshake"
    /\ pollHandshake(capture) # capture
    /\ capture' = pollHandshake(capture)
    /\ UNCHANGED exporterVars

LoopTest ==
    /\ capture.pc = "loopTest"
    /\ capture' = loopTest(capture)
    /\ UNCHANGED exporterVars

CheckFlag ==
    /\ capture.pc = "checkFlag"
    /\ capture' = checkFlag(capture)
    /\ UNCHANGED exporterVars

Disconnect ==
    /\ capture.pc = "disconnect"
    /\ capture' = disconnect(capture)
    /\ UNCHANGED exporterVars

ResetFlag ==
    /\ capture.pc = "reset"
    /\ capture' = resetFlag(capture)
    /\ UNCHANGED exporterVars

Progress ==
    /\ capture.pc = "progress"
    /\ capture' = progress(capture)
    /\ UNCHANGED exporterVars

TimeoutCheck ==
    /\ capture.pc = "timeout"
    /\ \E expired \in BOOLEAN : capture' = timeoutCheck(capture, expired)
    /\ UNCHANGED exporterVars

Save ==
    /\ capture.pc = "save"
    /\ \E opened \in BOOLEAN : capture' = save(capture, opened)
    /\ UNCHANGED exporterVars

\* SigInt, run by the kernel between any two steps of main once installed
SigInt ==
    /\ capture.pc \notin {"none", "exit"}
    /\ capture.handler
    /\ capture' = [capture EXCEPT !.s_disconnect = TRUE, !.signalled = TRUE]
    /\ UNCHANGED exporterVars

\* the worker's network thread: the handshake ends, data arrives, the
\* connection ends (the client went away or answered the disconnect query)
WorkerHandshake ==
    /\ capture.pc \notin {"none", "exit"}
    /\ capture.handshake = "Pending"
    /\ \E h \in {"Welcome", "ProtocolMismatch", "NotAvailable", "Dropped"} :
          capture' = [capture EXCEPT !.handshake = h, !.connected = (h = "Welcome")]
    /\ UNCHANGED exporterVars

WorkerData ==
    /\ capture.pc \notin {"none", "exit"}
    /\ capture.connected
    /\ ~capture.hasData
    /\ capture' = [capture EXCEPT !.hasData = TRUE]
    /\ UNCHANGED exporterVars

WorkerDisconnected ==
    /\ capture.pc \notin {"none", "exit"}
    /\ capture.connected
    /\ capture.hasData
    /\ capture' = [capture EXCEPT !.connected = FALSE]
    /\ UNCHANGED exporterVars

CaptureMain ==
    \/ StartUp
    \/ Connect
    \/ PollHandshake
    \/ LoopTest
    \/ CheckFlag
    \/ Disconnect
    \/ ResetFlag
    \/ Progress
    \/ TimeoutCheck
    \/ Save

NextCapture ==
    \/ CaptureMain
    \/ SigInt
    \/ WorkerHandshake
    \/ WorkerData
    \/ WorkerDisconnected

SpecStringTable == Init /\ [][TStringIntern]_vars
SpecLibTable == Init /\ [][TLibIntern]_vars
SpecFrames == Init /\ [][TGetOrCreateFrame \/ TGetOrCreateStack]_vars
SpecLookups ==
    Init /\ [][TGetOrCreateFrame \/ TGetOrCreateResource
                  \/ TGetOrCreateNativeSymbol \/ TGetOrCreateFunc]_vars
SpecSamples == Init /\ [][TProcessSamples \/ TThreadToJson]_vars
SpecAllocations == Init /\ [][TProcessAllocations]_vars
SpecZones == Init /\ [][TCollectZones]_vars
SpecLocks == Init /\ [][TProcessLocks]_vars
SpecMarkers == Init /\ [][TCollectGpuZones \/ TProcessMessages \/ TProcessFrames]_vars
SpecCounters == Init /\ [][TBuildCounters \/ TBuild_counters]_vars
SpecStacks == Init /\ [][TSampleStack \/ TAllocStack]_vars

SpecThreadHead == Init /\ [][TThreadHead]_vars
SpecSampleBatch == Init /\ [][TSampleBatch]_vars
SpecCapture == InitCapture /\ [][NextCapture]_vars

\* main of the capture tool is a sequential program on its own thread and
\* sleep_for returns: its next step is taken whenever it stays enabled
LiveCapture == SpecCapture /\ WF_vars(CaptureMain)
\* ------------------------------------------------------------------------
\* Properties
\* ------------------------------------------------------------------------
InRange(i, n) == i >= 0 /\ i < n
NoneOrInRange(i, n) == i = -1 \/ InRange(i, n)

\* the parallel columns of a serialised table
Columns(table) == DOMAIN table \ {"length", "weightType"}
ColumnsMatchLength(table) == \A k \in Columns(table) : Len(table[k]) = table.length

\* C1: in every serialised thread, each parallel column of frameTable,
\* funcTable, nativeSymbols, resourceTable, stackTable, samples,
\* nativeAllocations and markers has exactly `length` elements, and `length`
\* is the number of rows of the table.
C1_ColumnLengths ==
    emitted # NoJson =>
        /\ ColumnsMatchLength(emitted.thread.frameTable)
        /\ ColumnsMatchLength(emitted.thread.funcTable)
        /\ ColumnsMatchLength(emitted.thread.nativeSymbols)
        /\ ColumnsMatchLength(emitted.thread.resourceTable)
        /\ ColumnsMatchLength(emitted.thread.stackTable)
        /\ ColumnsMatchLength(emitted.thread.samples)
        /\ ColumnsMatchLength(emitted.thread.markers)
        /\ ColumnsMatchLength(emitted.nativeAllocations)
        /\ emitted.thread.frameTable.length = Len(tt.frames)
        /\ emitted.thread.funcTable.length = Len(tt.funcs)
        /\ emitted.thread.nativeSymbols.length = Len(tt.nativeSymbols)
        /\ emitted.thread.resourceTable.length = Len(tt.resources)
        /\ emitted.thread.stackTable.length = Len(tt.stacks)
        /\ emitted.thread.samples.length = Len(tt.samples)
        /\ emitted.thread.markers.length = Len(tt.markers)
        /\ emitted.nativeAllocations.length = Len(tt.allocations)

\* a thread with zones, samples and a freed allocation has been serialised,
\* with a frame whose line is unknown
C1_Witness ==
    /\ emitted # NoJson
    /\ emitted.thread.frameTable.length >= 2
    /\ \E f \in 1..Len(tt.frames) : tt.frames[f].line = 0
    /\ emitted.thread.samples.length >= 1
    /\ emitted.thread.markers.length >= 1
    /\ emitted.nativeAllocations.length >= 2

\* the string indices held in a marker's data blob
MarkerStringRefs(m) ==
    {m.data[k] : k \in DOMAIN m.data \cap {"name", "text", "file", "function"}}

\* C2: every cross-reference of the thread builder is in range or none:
\* frame -> func / native symbol, stack -> frame / prefix, sample and
\* allocation -> stack, func -> resource, resource and native symbol ->
\* document-wide library table, every string index -> string array.
C2_RefsInRange ==
    /\ \A i \in 1..Len(tt.frames) :
          /\ InRange(tt.frames[i].funcIdx, Len(tt.funcs))
          /\ InRange(tt.frames[i].nativeSymbolIdx, Len(tt.nativeSymbols))
    /\ \A i \in 1..Len(tt.stacks) :
          /\ InRange(tt.stacks[i].frame, Len(tt.frames))
          /\ NoneOrInRange(tt.stacks[i].prefix, Len(tt.stacks))
    /\ \A i \in 1..Len(tt.samples) :
          NoneOrInRange(tt.samples[i].stackIdx, Len(tt.stacks))
    /\ \A i \in 1..Len(tt.allocations) :
          NoneOrInRange(tt.allocations[i].stackIdx, Len(tt.stacks))
    /\ \A i \in 1..Len(tt.funcs) :
          /\ NoneOrInRange(tt.funcs[i].resourceIdx, Len(tt.resources))
          /\ InRange(tt.funcs[i].nameIdx, Len(st.m_strings))
          /\ InRange(tt.funcs[i].fileNameIdx, Len(st.m_strings))
    /\ \A i \in 1..Len(tt.resources) :
          /\ NoneOrInRange(tt.resources[i].libIdx, Len(lt.m_libs))
          /\ InRange(tt.resources[i].nameIdx, Len(st.m_strings))
    /\ \A i \in 1..Len(tt.nativeSymbols) :
          /\ NoneOrInRange(tt.nativeSymbols[i].libIndex, Len(lt.m_libs))
          /\ InRange(tt.nativeSymbols[i].nameIdx, Len(st.m_strings))
    /\ \A i \in 1..Len(tt.markers) :
          /\ InRange(tt.markers[i].nameIdx, Len(st.m_strings))
          /\ \A r \in MarkerStringRefs(tt.markers[i]) : InRange(r, Len(st.m_strings))

\* the second thread builder of a document holds a sample and an allocation
\* with stacks, a native symbol with a library and one without
C2_Witness ==
    /\ thread = 2
    /\ \E i \in 1..Len(tt.samples) : tt.samples[i].stackIdx >= 0
    /\ \E i \in 1..Len(tt.allocations) : tt.allocations[i].stackIdx >= 0
    /\ \E i \in 1..Len(tt.nativeSymbols) : tt.nativeSymbols[i].libIndex >= 0
    /\ \E i \in 1..Len(tt.nativeSymbols) : tt.nativeSymbols[i].libIndex = -1
    /\ \E i \in 1..Len(tt.stacks) : tt.stacks[i].prefix >= 0

\* the number of prefix steps from stack row idx (0-based) to none, or -1
\* when none is not reached within fuel steps
RECURSIVE PrefixSteps(_, _, _)
PrefixSteps(stacks, idx, fuel) ==
    IF idx = -1 THEN 0
    ELSE IF fuel = 0 \/ ~InRange(idx, Len(stacks)) THEN -1
    ELSE LET n == PrefixSteps(stacks, stacks[idx + 1].prefix, fuel - 1)
         IN  IF n = -1 THEN -1 ELSE n + 1

\* C3: every stack row's prefix is none or strictly less than the row's own
\* index, and following prefix from any row reaches none in at most
\* len(stacks) steps.
C3_PrefixBelowRow ==
    \A i \in 1..Len(tt.stacks) :
        /\ tt.stacks[i].prefix = -1 \/ tt.stacks[i].prefix < i - 1
        /\ PrefixSteps(tt.stacks, i - 1, Len(tt.stacks)) # -1

\* a sample and an allocation both hold stacks three rows deep
C3_Witness ==
    /\ \E i \in 1..Len(tt.samples) :
          PrefixSteps(tt.stacks, tt.samples[i].stackIdx, Len(tt.stacks)) >= 3
    /\ \E i \in 1..Len(tt.allocations) :
          PrefixSteps(tt.stacks, tt.allocations[i].stackIdx, Len(tt.stacks)) >= 2

\* the std::string built from a const char* argument
Str(p) == IF p = NullPtr THEN "" ELSE p

\* C4: StringTable.intern is idempotent over any sequence of calls: a call
\* intern(s) returns the index s already has; the string array holds s at
\* the returned index after the call and after every later call; two
\* different strings never share an index; a repeated intern(s) leaves the
\* string array unchanged.
C4_InternIdempotent ==
    /\ \A i, j \in 1..Len(st.m_strings) :
          st.m_strings[i] = st.m_strings[j] => i = j
    /\ \A s \in DOMAIN st.m_map :
          /\ InRange(st.m_map[s], Len(st.m_strings))
          /\ st.m_strings[st.m_map[s] + 1] = s
    /\ \A s \in StringInputs :
          LET r1 == StringTable_intern_cstr(st, s)
              r2 == StringTable_intern_cstr(r1.st, s)
          IN  /\ r1.st.m_strings[r1.ret + 1] = Str(s)
              /\ r2.ret = r1.ret
              /\ r2.st.m_strings = r1.st.m_strings
              /\ SubSeq(r1.st.m_strings, 1, Len(st.m_strings)) = st.m_strings
              /\ \A t \in StringInputs :
                    LET r3 == StringTable_intern_cstr(r1.st, t)
                    IN  /\ r3.st.m_strings[r1.ret + 1] = Str(s)
                        /\ Str(t) # Str(s) => r3.ret # r1.ret
    /\ call.op = "StringTable_intern" =>
          /\ st.m_strings[call.ret + 1] = Str(call.s)
          /\ SubSeq(st.m_strings, 1, Len(call.before.m_strings)) = call.before.m_strings
          /\ Str(call.s) \in DOMAIN call.before.m_map =>
                /\ call.ret = call.before.m_map[Str(call.s)]
                /\ st.m_strings = call.before.m_strings

\* a string was interned again after another string had been interned:
\* the call returned the first index and appended nothing
C4_Witness ==
    /\ call.op = "StringTable_intern"
    /\ Str(call.s) \in DOMAIN call.before.m_map
    /\ call.ret = 0
    /\ Len(st.m_strings) >= 2
    /\ st.m_strings = call.before.m_strings

\* the (prefix, frame) pairs getOrCreateStack can be called with
StackArgs(t) == (-1..(Len(t.stacks) - 1)) \X StackFrameInputs

\* C5: getOrCreateStack is a pure function of (prefix, frame) within one
\* thread builder: a call returns the row holding (prefix, frame); calling
\* again with the same pair returns the same index and appends no row; two
\* calls with different pairs return different indices; no two stack rows
\* hold the same (prefix, frame).
C5_StackPure ==
    /\ \A i, j \in 1..Len(tt.stacks) : tt.stacks[i] = tt.stacks[j] => i = j
    /\ \A p \in StackArgs(tt) :
          LET r1 == getOrCreateStack(tt, p[1], p[2])
              r2 == getOrCreateStack(r1.tt, p[1], p[2])
          IN  /\ r1.tt.stacks[r1.ret + 1] = [prefix |-> p[1], frame |-> p[2]]
              /\ r2.ret = r1.ret
              /\ r2.tt = r1.tt
              /\ \A q \in StackArgs(r1.tt) :
                    q # p => getOrCreateStack(r1.tt, q[1], q[2]).ret # r1.ret
    /\ call.op = "getOrCreateStack" =>
          /\ tt.stacks[call.ret + 1] = [prefix |-> call.prefix, frame |-> call.frame]
          /\ call.ret < call.rows => Len(tt.stacks) = call.rows

\* a pair was constructed a second time with other rows in the table: the
\* call returned the existing row and appended none
C5_Witness ==
    /\ call.op = "getOrCreateStack"
    /\ call.ret < call.rows
    /\ call.prefix >= 0
    /\ Len(tt.stacks) >= 2
    /\ Len(tt.stacks) = call.rows

\* C6: frame rows are keyed by the pair (symbol address, inline depth):
\* within one thread builder two getOrCreateFrame calls return the same
\* frame index if and only if they have the same symbol address and the
\* same inline depth; that is, every call returns the row holding its own
\* (symbol address, inline depth), and no two rows hold the same pair.
C6_FrameKeyedByPair ==
    /\ \A f, g \in 1..Len(tt.frames) :
          (tt.frames[f].address = tt.frames[g].address
              /\ tt.frames[f].inlineDepth = tt.frames[g].inlineDepth) => f = g
    /\ call.op = "getOrCreateFrame" =>
          /\ tt.frames[call.ret + 1].address = ToInt64(call.symAddr)
          /\ tt.frames[call.ret + 1].inlineDepth = call.inlineDepth

\* C7: for every frame row, the func row and the native-symbol row it
\* references are the entries keyed by the frame's own symbol address, the
\* native symbol's address is the frame's address, and the func's name is
\* the same string index as the native symbol's name.
C7_FrameFuncSymbolAgree ==
    \A f \in 1..Len(tt.frames) :
        LET fr   == tt.frames[f]
            addr == ToUint64(fr.address)
        IN  /\ addr \in DOMAIN tt.symAddrToFunc
            /\ addr \in DOMAIN tt.symAddrToNativeSymbol
            /\ tt.symAddrToFunc[addr] = fr.funcIdx
            /\ tt.symAddrToNativeSymbol[addr] = fr.nativeSymbolIdx
            /\ tt.nativeSymbols[fr.nativeSymbolIdx + 1].address = addr
            /\ tt.funcs[fr.funcIdx + 1].nameIdx =
                  tt.nativeSymbols[fr.nativeSymbolIdx + 1].nameIdx

\* an inlined frame and its enclosing frame share a symbol address, and a
\* frame with a kernel address is present
C7_Witness ==
    /\ \E f, g \in 1..Len(tt.frames) :
          /\ tt.frames[f].address = tt.frames[g].address
          /\ tt.frames[f].inlineDepth = 0
          /\ tt.frames[g].inlineDepth = 1
          /\ tt.frames[f].funcIdx = tt.frames[g].funcIdx
    /\ \E f \in 1..Len(tt.frames) : tt.frames[f].address.neg

\* the library a native symbol row was observed in: its libIndex names the
\* thread's resource row of the image, which holds the library index
LibOfSymbol(ns) == lt.m_libs[tt.resources[ns.libIndex + 1].libIdx + 1]

\* start <= addr < end on uint64_t
InLibRange(addr, lib) == ~U64Less(addr, lib.start) /\ U64Less(addr, lib.end)

\* C8: for every native symbol row that references a library, the symbol's
\* address lies in the library's half-open range: start <= address < end.
C8_SymbolInLibRange ==
    \A n \in 1..Len(tt.nativeSymbols) :
        tt.nativeSymbols[n].libIndex >= 0 =>
            InLibRange(tt.nativeSymbols[n].address, LibOfSymbol(tt.nativeSymbols[n]))

\* the larger of two uint64_t values
U64Max(a, b) == IF U64Less(a, b) THEN b ELSE a

\* C9: for a given library name, over any sequence of LibTable.intern
\* calls: the returned index never changes; the first call sets start =
\* addr and end = addr + size; a later call with addr != 0 sets start to
\* min(start, addr), or to addr when start is 0, and end to max(end, addr +
\* size); a later call with addr = 0 changes nothing; end never decreases
\* and a nonzero start never increases.  addr + size is the uint64_t sum.
C9_LibRangeWidens ==
    /\ \A n \in DOMAIN lt.m_map :
          /\ InRange(lt.m_map[n], Len(lt.m_libs))
          /\ lt.m_libs[lt.m_map[n] + 1].name = n
    /\ (call.op = "LibTable_intern" /\ call.name # NullPtr /\ call.name # "") =>
          LET b   == call.before
              end == U64Add32(call.addr, call.size)
              new == lt.m_libs[call.ret + 1]
          IN  /\ InRange(call.ret, Len(lt.m_libs))
              /\ new.name = call.name
              /\ \A k \in 1..Len(b.m_libs) :
                    k # call.ret + 1 => lt.m_libs[k] = b.m_libs[k]
              /\ IF call.name \in DOMAIN b.m_map
                 THEN LET old == b.m_libs[b.m_map[call.name] + 1]
                      IN  /\ call.ret = b.m_map[call.name]
                          /\ Len(lt.m_libs) = Len(b.m_libs)
                          /\ IF call.addr = U64Zero
                             THEN new = old
                             ELSE /\ new.start =
                                        IF old.start = U64Zero THEN call.addr
                                        ELSE IF U64Less(call.addr, old.start)
                                             THEN call.addr ELSE old.start
                                  /\ new.end = U64Max(old.end, end)
                          /\ ~U64Less(new.end, old.end)
                          /\ old.start # U64Zero => ~U64Less(old.start, new.start)
                 ELSE /\ call.ret = Len(b.m_libs)
                      /\ Len(lt.m_libs) = Len(b.m_libs) + 1
                      /\ new.start = call.addr
                      /\ new.end = end

\* a later sight of a library lowered its nonzero start and raised its end
C9_Witness ==
    /\ call.op = "LibTable_intern"
    /\ call.name \in DOMAIN call.before.m_map
    /\ LET old == call.before.m_libs[call.ret + 1]
           new == lt.m_libs[call.ret + 1]
       IN  /\ old.start # U64Zero
           /\ U64Less(new.start, old.start)
           /\ U64Less(old.end, new.end)

\* C10: the emitted sample rows of a thread are in nondecreasing time
\* order, whatever the order of the input samples: every timeDeltas element
\* after the first is >= 0.
C10_SampleTimesNondecreasing ==
    emitted # NoJson =>
        \A i \in 2..Len(emitted.thread.samples.timeDeltas) :
            ~emitted.thread.samples.timeDeltas[i].neg

\* the running sums of a sequence of doubles, added left to right from 0.0
RECURSIVE PrefixSums(_)
PrefixSums(ds) ==
    IF ds = <<>> THEN <<>>
    ELSE LET p == PrefixSums(SubSeq(ds, 1, Len(ds) - 1))
         IN  Append(p, DoubleAdd(IF p = <<>> THEN DoubleZero ELSE p[Len(p)],
                                 ds[Len(ds)]))

\* the sample times of the thread builder as doubles
SampleTimesOf(t) == [i \in 1..Len(t.samples) |-> Binary64(t.samples[i].time)]

\* C11 (as stated): timeDeltas[0] is the first sample's time, timeDeltas[i]
\* is time[i] - time[i-1], and the prefix sums of timeDeltas reproduce
\* exactly the sample times of the samples table, in the same order.
C11_PrefixSumsExact ==
    call.op = "threadToJson" =>
        PrefixSums(emitted.thread.samples.timeDeltas) = SampleTimesOf(tt)

\* C11 (amended): timeDeltas has one element per sample row, in the order
\* of the rows; timeDeltas[0] is the first sample's time and timeDeltas[i]
\* is the double difference time[i] - time[i-1] (rounded to nearest), zero
\* exactly for equal times and negative exactly for a step back in time.
\* (Nothing is said of the prefix sums: they need not give the times back.)
C11_DeltaEncoding ==
    call.op = "threadToJson" =>
        LET d == emitted.thread.samples.timeDeltas
            t == SampleTimesOf(tt)
        IN  /\ Len(d) = Len(t)
            /\ d[1] = t[1]
            /\ \A i \in 2..Len(d) :
                  /\ d[i] = DoubleSub(t[i], t[i - 1])
                  /\ (d[i] = DoubleZero) <=> (t[i] = t[i - 1])
                  /\ d[i].neg <=> MsLess(tt.samples[i].time, tt.samples[i - 1].time)

\* three samples were serialised and a prefix sum of the deltas is not the
\* sample's time
C11_Witness ==
    /\ call.op = "threadToJson"
    /\ Len(tt.samples) = 3
    /\ \E i \in 2..3 :
          PrefixSums(emitted.thread.samples.timeDeltas)[i] # SampleTimesOf(tt)[i]
    /\ \E i \in 2..3 : emitted.thread.samples.timeDeltas[i].neg

\* an allocation row without its stack
AllocRow(time, weight, ptr, threadId) ==
    [time |-> ns_to_ms(time), weight |-> weight, memoryAddress |-> ptr,
     threadId |-> threadId]

RowOf(a) ==
    [time |-> a.time, weight |-> a.weight, memoryAddress |-> a.memoryAddress,
     threadId |-> a.threadId]

RowsOf(allocations) == [i \in 1..Len(allocations) |-> RowOf(allocations[i])]

\* the rows the claims expect of one event: the alloc row, then the free
\* row if and only if the event was freed
EventRows(ev) ==
    <<AllocRow(ev.timeAlloc, ev.size, ev.ptr, 100 + ev.threadAlloc)>> \o
    (IF ev.timeFree >= 0
     THEN <<AllocRow(ev.timeFree, 0 - ev.size, ev.ptr, 100 + ev.threadFree)>>
     ELSE <<>>)

\* the rows in the order they are produced from the source
RECURSIVE ProducedRows(_)
ProducedRows(events) ==
    IF events = <<>> THEN <<>>
    ELSE EventRows(Head(events)) \o ProducedRows(Tail(events))

\* the subsequence of the rows with the given time
RECURSIVE RowsAt(_, _)
RowsAt(rows, time) ==
    IF rows = <<>> THEN <<>>
    ELSE IF rows[1].time = time THEN <<rows[1]>> \o RowsAt(Tail(rows), time)
    ELSE RowsAt(Tail(rows), time)

\* the rows of the last processAllocations call in production order, after
\* the rows the builder held before
Produced == RowsOf(call.before) \o ProducedRows(call.events)

\* C12: after processAllocations the allocation rows are in nondecreasing
\* time order, rows of equal time keep the order in which they were
\* produced from the source, and for every freed event with alloc time <=
\* free time the alloc row precedes its free row.
C12_AllocationsStablySorted ==
    call.op = "processAllocations" =>
        LET R == RowsOf(tt.allocations)
        IN  /\ Len(R) = Len(Produced)
            /\ \A i \in 2..Len(R) : ~MsLess(R[i].time, R[i - 1].time)
            /\ \A k \in 1..Len(Produced) :
                  RowsAt(R, Produced[k].time) = RowsAt(Produced, Produced[k].time)
            /\ \A k \in 1..Len(call.events) :
                  LET ev == call.events[k]
                  IN  (ev.timeFree >= ev.timeAlloc) =>
                        \E i, j \in 1..Len(R) :
                            /\ i < j
                            /\ <<R[i], R[j]>> = EventRows(ev)

\* two events were processed in one call; an alloc row and a free row of
\* different events share a time, and an event was freed at its alloc time
C12_Witness ==
    /\ call.op = "processAllocations"
    /\ Len(call.events) = 2
    /\ call.before # <<>>
    /\ \E k \in 1..2 : call.events[k].timeFree = call.events[k].timeAlloc
    /\ \E i \in 2..Len(tt.allocations) :
          /\ tt.allocations[i].time = tt.allocations[i - 1].time
          /\ tt.allocations[i].memoryAddress # tt.allocations[i - 1].memoryAddress
    /\ RowsOf(tt.allocations) # Produced

\* the number of times x occurs in a sequence
Count(rows, x) == Cardinality({i \in 1..Len(rows) : rows[i] = x})

RECURSIVE SumWeights(_)
SumWeights(rows) ==
    IF rows = <<>> THEN 0 ELSE rows[1].weight + SumWeights(Tail(rows))

Freed(events) == {k \in 1..Len(events) : events[k].timeFree >= 0}

\* the rows are those of the events, one alloc row each and one free row
\* for each freed event, and there are events + freed events of them
EventsHaveTheirRows ==
    LET R == RowsOf(tt.allocations)
    IN  /\ \A k \in 1..Len(Produced) : Count(R, Produced[k]) = Count(Produced, Produced[k])
        /\ \A i \in 1..Len(R) : Count(Produced, R[i]) > 0
        /\ Len(tt.allocations) =
              Len(call.before) + Len(call.events) + Cardinality(Freed(call.events))

\* the call was made on an empty builder with the single event ev
SingleEvent == call.before = <<>> /\ Len(call.events) = 1

\* C13 (as stated): processAllocations emits for every memory event one
\* row (+size, alloc time, alloc thread) and one more row (-size, same
\* address, free time, free thread) if and only if the event was freed;
\* rows = events + freed events; the weights of an event's rows sum to 0
\* exactly when it was freed.
C13_RowsPerEvent ==
    call.op = "processAllocations" =>
        /\ EventsHaveTheirRows
        /\ SingleEvent =>
              (SumWeights(tt.allocations) = 0 <=> call.events[1].timeFree >= 0)

\* C13 (amended): as above, with the weights of an event's rows summing to
\* 0 if it was freed, and exactly when it was freed if its size is not 0.
C13_RowsPerEventNonzeroSize ==
    call.op = "processAllocations" =>
        /\ EventsHaveTheirRows
        /\ SingleEvent =>
              /\ call.events[1].timeFree >= 0 => SumWeights(tt.allocations) = 0
              /\ call.events[1].size # 0 =>
                    (SumWeights(tt.allocations) = 0 => call.events[1].timeFree >= 0)

\* a freed and an unfreed event were processed in one call after an event
\* of size 0
C13_Witness ==
    /\ call.op = "processAllocations"
    /\ Len(call.events) = 2
    /\ Cardinality(Freed(call.events)) = 1
    /\ \E i \in 1..Len(call.before) : call.before[i].weight = 0
    /\ Len(tt.allocations) = Len(call.before) + 3

\* the number of zones with a valid end in the whole trees of the zones
RECURSIVE ValidEndZones(_)
ValidEndZones(zones) ==
    IF zones = <<>> THEN 0
    ELSE (IF Head(zones).end >= 0 THEN 1 ELSE 0)
         + ValidEndZones(Head(zones).children)
         + ValidEndZones(Tail(zones))

\* C14: collectZones appends exactly one TracyZone marker for every zone
\* with a valid end reachable from the timeline through child lists at any
\* depth, and none for zones without a valid end: the number of markers
\* appended is the number of valid-end zones of the whole zone tree.
C14_MarkerPerValidZone ==
    call.op = "collectZones" =>
        /\ Len(tt.markers) - call.rows = ValidEndZones(call.zones)
        /\ \A i \in 1..Len(tt.markers) : tt.markers[i].type = "TracyZone"


\* ------------------------------------------------------------------------
\* C15: processLocks is the wait_start state machine of each lock of the
\* thread.  An Obtain or ObtainShared of the thread emits one interval
\* marker exactly when a Wait or WaitShared of the thread came before it
\* with a time >= 0 and no Obtain of the thread in between; the marker
\* runs from the last such Wait to the Obtain (a later Wait overwrites an
\* earlier one, a Release changes nothing); so a lock's markers never
\* outnumber its Obtain events.
\* ------------------------------------------------------------------------
LockSeen(lock, threadId) ==
    lock.valid /\ threadMapHas(lock.threadMap, threadId)

MineAt(lock, threadId, i) ==
    lock.timeline[i].thread = threadMapFind(lock.threadMap, threadId)

IsWaitAt(lock, threadId, i) ==
    MineAt(lock, threadId, i) /\ lock.timeline[i].type \in {Wait, WaitShared}

IsObtainAt(lock, threadId, i) ==
    MineAt(lock, threadId, i) /\ lock.timeline[i].type \in {Obtain, ObtainShared}

\* positions of the thread's Waits before k, and the last of them (0: none)
WaitsBefore(lock, threadId, k) ==
    {j \in 1..(k - 1) : IsWaitAt(lock, threadId, j)}

LastWaitBefore(lock, threadId, k) ==
    IF WaitsBefore(lock, threadId, k) = {} THEN 0
    ELSE CHOOSE j \in WaitsBefore(lock, threadId, k) :
            \A m \in WaitsBefore(lock, threadId, k) : m <= j

\* the Obtain at k finds a wait pending
PendingAt(lock, threadId, k) ==
    LET j == LastWaitBefore(lock, threadId, k)
    IN  /\ j > 0
        /\ lock.timeline[j].time >= 0
        /\ \A m \in (j + 1)..(k - 1) : ~IsObtainAt(lock, threadId, m)

EmittingObtains(lock, threadId) ==
    IF ~LockSeen(lock, threadId) THEN {}
    ELSE {k \in 1..Len(lock.timeline) :
             IsObtainAt(lock, threadId, k) /\ PendingAt(lock, threadId, k)}

Obtains(lock, threadId) ==
    IF ~LockSeen(lock, threadId) THEN {}
    ELSE {k \in 1..Len(lock.timeline) : IsObtainAt(lock, threadId, k)}

\* the markers a lock owes, in timeline order, as <<lockId, start, end, shared>>
RECURSIVE OwedFrom(_, _, _)
OwedFrom(lock, threadId, k) ==
    IF k > Len(lock.timeline) THEN <<>>
    ELSE (IF k \in EmittingObtains(lock, threadId)
          THEN << <<lock.lockId,
                    ns_to_ms(lock.timeline[LastWaitBefore(lock, threadId, k)].time),
                    ns_to_ms(lock.timeline[k].time),
                    lock.timeline[k].type = ObtainShared>> >>
          ELSE <<>>)
         \o OwedFrom(lock, threadId, k + 1)

RECURSIVE OwedMarkers(_, _)
OwedMarkers(locks, threadId) ==
    IF locks = <<>> THEN <<>>
    ELSE OwedFrom(Head(locks), threadId, 1) \o OwedMarkers(Tail(locks), threadId)

LockMarkerOf(m) ==
    <<m.data.lockId, m.startTime, m.endTime, m.data.operation = "wait_shared">>

LockMarkersSince(rows) ==
    [i \in 1..(Len(tt.markers) - rows) |-> LockMarkerOf(tt.markers[rows + i])]

RECURSIVE ObtainCount(_, _)
ObtainCount(locks, threadId) ==
    IF locks = <<>> THEN 0
    ELSE Cardinality(Obtains(Head(locks), threadId))
         + ObtainCount(Tail(locks), threadId)

C15_LockStateMachine ==
    call.op = "processLocks" =>
        /\ LockMarkersSince(call.rows) = OwedMarkers(call.locks, call.threadId)
        /\ Len(tt.markers) - call.rows <= ObtainCount(call.locks, call.threadId)
        /\ \A i \in (call.rows + 1)..Len(tt.markers) :
              /\ tt.markers[i].type = "TracyLock"
              /\ tt.markers[i].phase = Interval
              /\ tt.markers[i].data.operation \in {"wait", "wait_shared"}

\* a lock with two Waits in a row and two Obtains in a row was processed:
\* one marker, from the second Wait, and the second Obtain emitted nothing
C15_Witness ==
    /\ call.op = "processLocks"
    /\ Len(call.locks) = 1
    /\ call.locks[1].lockId = 2
    /\ Len(tt.markers) - call.rows = 1
    /\ tt.markers[Len(tt.markers)].startTime = ns_to_ms(2000000)


\* ------------------------------------------------------------------------
\* C16: the stack chain of a sample runs root to leaf from the outermost
\* call to the innermost.  The chain's root row (prefix none) holds the
\* frame of the outermost sub-frame of the last callstack entry, the
\* sample's stack is the row holding the innermost sub-frame (data[0]) of
\* callstack entry 0, and the sub-frames of an entry have inline depth 0
\* (outermost) to size - 1 (innermost).  Callstack [B, A] on a fresh
\* builder gives stack[0] = (none, A), stack[1] = (0, B), samples.stack = [1].
\* ------------------------------------------------------------------------

\* the sub-frames of an entry, outermost first, as [symAddr, inlineDepth]
EntrySubFrames(frameId) ==
    LET fd == GetCallstackFrame(frameId)
    IN  [k \in 1..Len(fd.data) |->
            [symAddr     |-> fd.data[Len(fd.data) + 1 - k].symAddr,
             inlineDepth |-> k - 1]]

\* the sub-frames of the resolved entries of a callstack, outermost first
RECURSIVE SubFramesRootFirst(_)
SubFramesRootFirst(callstack) ==
    IF callstack = <<>> THEN <<>>
    ELSE SubFramesRootFirst(Tail(callstack))
         \o (IF GetCallstackFrame(Head(callstack)).present
             THEN EntrySubFrames(Head(callstack)) ELSE <<>>)

\* the frames of the chain that ends at a stack row, root first
RECURSIVE Chain(_, _)
Chain(t, stackIdx) ==
    IF stackIdx < 0 THEN <<>>
    ELSE Append(Chain(t, t.stacks[stackIdx + 1].prefix), t.stacks[stackIdx + 1].frame)

HoldsSubFrame(t, frameIdx, sub) ==
    /\ t.frames[frameIdx + 1].address = ToInt64(sub.symAddr)
    /\ t.frames[frameIdx + 1].inlineDepth = sub.inlineDepth

C16_ChainRootToLeaf ==
    (call.op = "sampleStack" /\ Len(tt.samples) > call.rows) =>
        LET ch == Chain(tt, tt.samples[Len(tt.samples)].stackIdx)
            sf == SubFramesRootFirst(GetCallstack(call.callstack))
        IN  /\ Len(ch) = Len(sf)
            /\ \A k \in 1..Len(ch) : HoldsSubFrame(tt, ch[k], sf[k])
            /\ call.all = <<1>> =>
                  /\ tt.stacks = <<[prefix |-> -1, frame |-> 0],
                                   [prefix |-> 0, frame |-> 1]>>
                  /\ tt.samples[1].stackIdx = 1
                  /\ tt.frames[1].address = ToInt64(AddrA)
                  /\ tt.frames[2].address = ToInt64(AddrB)


\* ------------------------------------------------------------------------
\* C17: the stack table is a flat prefix tree.  After any callstacks of
\* samples and memory events were processed on one thread builder, the
\* chains of the stack rows are exactly the distinct non-empty root-first
\* prefixes of the callstacks' frame-index sequences, one row each, so
\* callstacks with a common root-side prefix share its rows; callstacks
\* [A, B] and [A, C] give 3 frames and 3 stacks.
\* ------------------------------------------------------------------------

\* the frame indices getOrCreateFrame gave the sub-frames, root first
FrameIndexSeq(t, callstack) ==
    LET sf == SubFramesRootFirst(callstack)
    IN  [k \in 1..Len(sf) |->
            t.frameKeyToFrame[FrameKey(sf[k].symAddr, sf[k].inlineDepth)]]

Prefixes(seq) == {SubSeq(seq, 1, n) : n \in 1..Len(seq)}

AllPrefixes(t, csIdxs) ==
    UNION {Prefixes(FrameIndexSeq(t, GetCallstack(csIdxs[i]))) : i \in 1..Len(csIdxs)}

StackChains(t) == {Chain(t, i - 1) : i \in 1..Len(t.stacks)}

C17_StackPrefixTree ==
    call.op \in {"sampleStack", "allocStack"} =>
        /\ StackChains(tt) = AllPrefixes(tt, call.all)
        /\ Len(tt.stacks) = Cardinality(AllPrefixes(tt, call.all))
        /\ \A i \in 1..Len(tt.stacks) : tt.stacks[i].prefix < i - 1
        /\ call.all \in {<<1, 2>>, <<2, 1>>} =>
              Len(tt.frames) = 3 /\ Len(tt.stacks) = 3

\* callstacks [B, A] and [C, A] were processed, as a sample and as the
\* callstack of an allocation: three frames, three stacks, the root shared
C17_Witness ==
    /\ call.op = "allocStack"
    /\ call.all = <<1, 2, 1>>
    /\ Len(tt.frames) = 3
    /\ Len(tt.stacks) = 3
    /\ tt.stacks[2].prefix = 0
    /\ tt.stacks[3].prefix = 0


\* ------------------------------------------------------------------------
\* C18: every emitted counter is delta-encoded, whichever counter builder
\* emitted it: one counter per plot that is not of type SysTime and has
\* data, in plot order; count[0] is the plot's first value and count[i] is
\* value[i] - value[i-1], so that the prefix sums of count reproduce the
\* plot's values; time, count and length have the plot's data size.
\* ------------------------------------------------------------------------
RECURSIVE EmittingPlots(_)
EmittingPlots(plots) ==
    IF plots = <<>> THEN <<>>
    ELSE (IF Head(plots).present /\ Head(plots).data # <<>>
             /\ Head(plots).type # PlotSysTime
          THEN <<Head(plots)>> ELSE <<>>)
         \o EmittingPlots(Tail(plots))

PlotValues(plot) == [i \in 1..Len(plot.data) |-> plot.data[i].val]

DeltaEncodes(counter, plot) ==
    /\ counter.name = plot.name
    /\ counter.samples.length = Len(plot.data)
    /\ Len(counter.samples.time) = Len(plot.data)
    /\ Len(counter.samples.count) = Len(plot.data)
    /\ counter.samples.count[1] = plot.data[1].val
    /\ \A i \in 2..Len(plot.data) :
          counter.samples.count[i] = DoubleSub(plot.data[i].val, plot.data[i - 1].val)
    /\ PrefixSums(counter.samples.count) = PlotValues(plot)

C18_CountersDeltaEncoded ==
    call.op \in {"buildCounters", "build_counters"} =>
        /\ Len(emitted.counters) = Len(EmittingPlots(call.plots))
        /\ \A k \in 1..Len(emitted.counters) :
              DeltaEncodes(emitted.counters[k], EmittingPlots(call.plots)[k])


\* ------------------------------------------------------------------------
\* C19: main starts no collection and emits no thread before it has seen
\* both readiness predicates true, polling them while the reader's
\* background thread runs; once the reader has set both, main leaves the
\* wait loops, runs the collection to completion and writes the document.
\* ------------------------------------------------------------------------
WaitStates == {"pollZones", "sleepZones", "pollSamples", "sleepSamples"}

NothingCollected ==
    /\ st = EmptyStringTable
    /\ lt = EmptyLibTable
    /\ tt = EmptyThreadTables
    /\ emitted = NoJson
    /\ profile = NoJson
    /\ thread = 1

WaitsForReader ==
    /\ pc \in WaitStates => NothingCollected
    /\ pc \in {"pollSamples", "sleepSamples"} => reader.sourceLocationZonesReady
    /\ pc \notin WaitStates => reader = ReaderReady

\* C19: main collects nothing before it has seen both predicates true, and
\* once the reader has set both it leaves the wait loops, runs the
\* collection to completion and writes the document.
\* (Fails where a name of the trace is not UTF-8: main is terminated in
\* profile.dump() with the output file created and empty; and where the
\* output file cannot be opened, main returns 1.)
C19_WaitsThenWrites ==
    /\ []WaitsForReader
    /\ (reader = ReaderReady) ~> (pc = "written")

\* C19, the run that cannot open its output and returns 1 not held against
\* it: main collects nothing before it has seen both predicates true, and
\* once the reader has set both it leaves the wait loops, runs the
\* collection to completion and ends with the document written or with
\* return 1.  (Fails: the run terminated in profile.dump() ends in neither.)
C19_WaitsThenWritesOrFails ==
    /\ []WaitsForReader
    /\ (reader = ReaderReady) ~> (pc \in {"written", "failed"})

\* the wait of C19 alone
WaitsBeforeCollecting == []WaitsForReader

\* main was terminated in profile.dump() after fopen: the file given with
\* -o is there and empty
TerminatedInDump ==
    /\ pc = "aborted"
    /\ call.op = "main"
    /\ call.output
    /\ call.file = "empty"


\* ------------------------------------------------------------------------
\* C20: mainThreadIndex is a valid index into the emitted threads array,
\* 0 <= mainThreadIndex < len(threads), in every counter of every trace,
\* a trace without threads included.
\* ------------------------------------------------------------------------
C20_MainThreadIndexValid ==
    call.op = "build_counters" =>
        \A k \in 1..Len(emitted.counters) :
            /\ 0 <= emitted.counters[k].mainThreadIndex
            /\ emitted.counters[k].mainThreadIndex < call.threads


\* ------------------------------------------------------------------------
\* C21: a thread is emitted with isMainThread = true if and only if its
\* name is literally "Main thread" or its resolved pid equals its tid, the
\* resolved pid being the reader's pid-for-tid when that is nonzero and the
\* capture's pid otherwise.
\* ------------------------------------------------------------------------
ResolvedPid == IF call.pidFromTid # 0 THEN call.pidFromTid ELSE call.capturePid

C21_MainThreadIffNameOrPid ==
    call.op = "threadHead" =>
        (emitted.isMainThread <=>
            (emitted.name = "Main thread" \/ ResolvedPid = call.tid))


\* ------------------------------------------------------------------------
\* C22: for an empty trace (no threads, no zones, no plots) the written
\* document has meta with version = 28 and preprocessedProfileVersion = 57,
\* and the keys threads, counters, libs and shared.stringArray are all
\* present, each with an empty array.
\* ------------------------------------------------------------------------
WroteEmptyTrace == pc = "written" /\ thread = 1 /\ emitted = NoJson

PresentAndEmpty(obj, key) == key \in DOMAIN obj /\ obj[key] = <<>>

C22_EmptyTraceDocument ==
    WroteEmptyTrace =>
        /\ "meta" \in DOMAIN profile
        /\ profile["meta"]["version"] = 28
        /\ profile["meta"]["preprocessedProfileVersion"] = 57
        /\ PresentAndEmpty(profile, "threads")
        /\ PresentAndEmpty(profile, "counters")
        /\ PresentAndEmpty(profile, "libs")
        /\ "shared" \in DOMAIN profile
        /\ PresentAndEmpty(profile["shared"], "stringArray")


\* ------------------------------------------------------------------------
\* C23: every frame referenced by an allocation callstack is in the memory
\* category: after samples and then allocations on one thread builder, every
\* frame row on the prefix chain of an allocation row's stack has the memory
\* category, also when its (symbol address, inline depth) was already met
\* in a CPU sample of the thread.
\* ------------------------------------------------------------------------
AllocationFrames(t) ==
    UNION { {Chain(t, t.allocations[k].stackIdx)[i] :
                i \in 1..Len(Chain(t, t.allocations[k].stackIdx))} :
            k \in 1..Len(t.allocations) }

C23_AllocationFramesInMemory ==
    pc \in {"allocations", "emitted"} =>
        \A f \in AllocationFrames(tt) : tt.frames[f + 1].category = memoryCategory


\* ------------------------------------------------------------------------
\* C24: malformed sample elements are skipped and collection continues. A
\* sample whose callstack id is 0 or whose callstack is empty adds no row to
\* samples, frames, funcs, native symbols or stacks and leaves the thread's
\* min/max time alone; a callstack entry without frame data adds no frame or
\* stack row while the other entries of the callstack are interned in
\* order; every later sample is processed as if the malformed element had
\* not been there. The tables after a batch are the tables of the batch
\* with the malformed samples and the unresolvable entries taken out.
\* ------------------------------------------------------------------------
WellFormedSample(s) == s.callstack # 0 /\ GetCallstack(s.callstack) # <<>>

ResolvableEntry(frameId) == GetCallstackFrame(frameId).present

ResolvableEntries(callstack) == SelectSeq(callstack, ResolvableEntry)

\* one well-formed sample, its callstack without the unresolvable entries
CleanSampleStep(c, s) ==
    pushSample(walkCallstack([c |-> c, stackIdx |-> -1],
                             ResolvableEntries(GetCallstack(s.callstack)),
                             userCategory, kernelCategory,
                             Len(ResolvableEntries(GetCallstack(s.callstack)))),
               s.time)

RECURSIVE CleanRun(_, _)
CleanRun(c, samples) ==
    IF samples = <<>> THEN c
    ELSE CleanRun(CleanSampleStep(c, Head(samples)), Tail(samples))

EmptyContext == [st |-> EmptyStringTable, lt |-> EmptyLibTable, tt |-> EmptyThreadTables]

C24_MalformedSamplesSkipped ==
    call.op = "sampleBatch" =>
        /\ ctx = CleanRun(EmptyContext, SelectSeq(call.samples, WellFormedSample))
        /\ Len(tt.samples) = Len(SelectSeq(call.samples, WellFormedSample))
        /\ SelectSeq(call.samples, WellFormedSample) = <<>> => ctx = EmptyContext

\* a sample without callstack, then one whose callstack [K, unresolved,
\* {inl, A}] has an entry without frame data, then a sample on [B, A]:
\* two sample rows, the frames A, inl, K and B and four stack rows
C24_Witness ==
    /\ call.op = "sampleBatch"
    /\ Len(call.samples) = 3
    /\ call.samples[1].callstack = 0
    /\ call.samples[2].callstack = 4
    /\ call.samples[3].callstack = 1
    /\ Len(tt.samples) = 2
    /\ Len(tt.frames) = 4
    /\ Len(tt.stacks) = 4
    /\ tt.minTime = Int64(Min(call.samples[2].time, call.samples[3].time))


\* ------------------------------------------------------------------------
\* C25: in a document with several threads, for every native symbol row
\* whose libIndex is not none, the entry at position libIndex of the
\* document-wide library table is the library named after the image the
\* symbol was observed in, whatever the order in which the threads first
\* met each library.
\* ------------------------------------------------------------------------
FrameIds == 1..8

\* the image name of the callstack frame that holds the symbol address
ImageOfSymbol(symAddr) ==
    LET id == CHOOSE frameId \in FrameIds :
                  /\ GetCallstackFrame(frameId).present
                  /\ \E j \in 1..Len(GetCallstackFrame(frameId).data) :
                        GetCallstackFrame(frameId).data[j].symAddr = symAddr
    IN  GetCallstackFrame(id).imageName

C25_LibIndexNamesLibrary ==
    \A n \in 1..Len(tt.nativeSymbols) :
        tt.nativeSymbols[n].libIndex # -1 =>
            /\ InRange(tt.nativeSymbols[n].libIndex, Len(lt.m_libs))
            /\ lt.m_libs[tt.nativeSymbols[n].libIndex + 1].name
                   = ImageOfSymbol(tt.nativeSymbols[n].address)


\* ------------------------------------------------------------------------
\* C26: the func table and the native-symbol table of a thread builder grow
\* in lockstep: after any sequence of getOrCreateFrame calls, len(funcs) =
\* len(nativeSymbols) = the number of distinct symbol addresses for which a
\* frame row was created, every frame row has funcIdx = nativeSymbolIdx, and
\* len(frames) >= len(funcs).
\* ------------------------------------------------------------------------
FrameAddresses(t) == {t.frames[f].address : f \in 1..Len(t.frames)}

C26_FuncsAndSymbolsInLockstep ==
    DirectCalls = 0 =>
        /\ Len(tt.funcs) = Len(tt.nativeSymbols)
        /\ Len(tt.funcs) = Cardinality(FrameAddresses(tt))
        /\ \A f \in 1..Len(tt.frames) :
              tt.frames[f].funcIdx = tt.frames[f].nativeSymbolIdx
        /\ Len(tt.frames) >= Len(tt.funcs)

\* the lockstep is one of getOrCreateFrame, not of the tables: a func
\* created through getOrCreateFunc itself has no native symbol, and a frame
\* created after it has a funcIdx that is not its nativeSymbolIdx
LockstepBrokenByDirectCall ==
    /\ call.op = "getOrCreateFrame"
    /\ DirectCalls = 1
    /\ Len(tt.funcs) = 2
    /\ Len(tt.nativeSymbols) = 1
    /\ tt.frames[1].funcIdx = 1
    /\ tt.frames[1].nativeSymbolIdx = 0

\* three frame rows over two symbol addresses: an inlined frame shares the
\* address of its enclosing frame, so frames outgrow funcs
C26_Witness ==
    /\ call.op = "getOrCreateFrame"
    /\ DirectCalls = 0
    /\ Len(tt.frames) = 3
    /\ Len(tt.funcs) = 2
    /\ Len(tt.nativeSymbols) = 2
    /\ \E f, g \in 1..Len(tt.frames) :
          /\ f # g
          /\ tt.frames[f].address = tt.frames[g].address


\* ------------------------------------------------------------------------
\* C27: the collectors leave no orphan rows: after any sequence of
\* processSamples / processAllocations calls, every stack row is the stack
\* of some sample or allocation row or an ancestor (via prefix) of one, and
\* every frame row is referenced by at least one stack row.
\* ------------------------------------------------------------------------
\* a stack row and its ancestors, as 0-based row indices
RECURSIVE StackPath(_, _)
StackPath(t, stackIdx) ==
    IF stackIdx < 0 THEN {}
    ELSE {stackIdx} \cup StackPath(t, t.stacks[stackIdx + 1].prefix)

RowStacks(t) ==
    {t.samples[k].stackIdx : k \in 1..Len(t.samples)}
        \cup {t.allocations[k].stackIdx : k \in 1..Len(t.allocations)}

ReachedStacks(t) == UNION {StackPath(t, s) : s \in RowStacks(t)}

C27_NoOrphanRows ==
    /\ \A i \in 1..Len(tt.stacks) : (i - 1) \in ReachedStacks(tt)
    /\ \A f \in 1..Len(tt.frames) :
          \E i \in 1..Len(tt.stacks) : tt.stacks[i].frame = f - 1

\* samples and allocations share a stack, and a stack row is reached only
\* as an ancestor of a row's stack
C27_Witness ==
    /\ call.op \in {"sampleStack", "allocStack"}
    /\ tt.samples # <<>>
    /\ tt.allocations # <<>>
    /\ Len(tt.stacks) >= 3
    /\ \E i \in 1..Len(tt.stacks) : (i - 1) \notin RowStacks(tt)
    /\ \E k \in 1..Len(tt.samples), j \in 1..Len(tt.allocations) :
          /\ tt.samples[k].stackIdx >= 0
          /\ tt.samples[k].stackIdx = tt.allocations[j].stackIdx


\* ------------------------------------------------------------------------
\* C28: lock markers never pair events across threads or across locks.
\* When thread T is built, a timeline event whose thread bit is not T's bit
\* for that lock neither sets nor clears wait_start, nor updates min/max
\* time, nor emits a marker: processLocks does what it does on the
\* timelines with the other threads' events taken out.  wait_start starts
\* unset for every lock, so every emitted TracyLock marker runs from a Wait
\* by T to a later-in-timeline Obtain by T on the same lock, and its
\* operation is "wait_shared" exactly when the closing event is
\* ObtainShared.
\* ------------------------------------------------------------------------
MineOnly(lock, threadId) ==
    IF ~LockSeen(lock, threadId) THEN lock
    ELSE [lock EXCEPT !.timeline =
             SelectSeq(@, LAMBDA ev : ev.thread = threadMapFind(lock.threadMap, threadId))]

MineOnlyAll(locks, threadId) ==
    [i \in 1..Len(locks) |-> MineOnly(locks[i], threadId)]

OtherThreadsIgnored ==
    call'.op = "processLocks" =>
        [st |-> st', lt |-> lt', tt |-> tt']
            = processLocks(ctx, MineOnlyAll(call'.locks, call'.threadId),
                           lockCategory, call'.threadId)

SpansOwnWaitAndObtain(m, lock, threadId) ==
    /\ lock.lockId = m.data.lockId
    /\ LockSeen(lock, threadId)
    /\ \E j, k \in 1..Len(lock.timeline) :
          /\ j < k
          /\ IsWaitAt(lock, threadId, j)
          /\ IsObtainAt(lock, threadId, k)
          /\ m.startTime = ns_to_ms(lock.timeline[j].time)
          /\ m.endTime = ns_to_ms(lock.timeline[k].time)
          /\ (m.data.operation = "wait_shared") <=> (lock.timeline[k].type = ObtainShared)

MarkersSpanOwnEvents ==
    call.op = "processLocks" =>
        \A i \in (call.rows + 1)..Len(tt.markers) :
            \E n \in 1..Len(call.locks) :
                SpansOwnWaitAndObtain(tt.markers[i], call.locks[n], call.threadId)

C28_LocksNeverPairAcross ==
    /\ []MarkersSpanOwnEvents
    /\ [][OtherThreadsIgnored]_vars

\* thread 100 was built on a lock that ends with its Wait pending followed
\* by the lock it shares with thread 101, whose Obtain lies between the
\* WaitShared and the ObtainShared of thread 100: one marker, wait_shared,
\* from 1 ms to 3 ms on lock 4
C28_Witness ==
    /\ call.op = "processLocks"
    /\ Len(call.locks) = 2
    /\ call.locks[1].lockId = 9
    /\ call.locks[2].lockId = 4
    /\ Len(tt.markers) - call.rows = 1
    /\ tt.markers[Len(tt.markers)].data.lockId = 4
    /\ tt.markers[Len(tt.markers)].data.operation = "wait_shared"
    /\ tt.markers[Len(tt.markers)].startTime = ns_to_ms(1000000)
    /\ tt.markers[Len(tt.markers)].endTime = ns_to_ms(3000000)


\* ---- C29 ----
InPollingLoop ==
    capture.pc \in {"loopTest", "checkFlag", "disconnect", "reset", "progress", "timeout"}

FlagSetWhileConnected ==
    /\ InPollingLoop
    /\ capture.s_disconnect
    /\ capture.connected

DisconnectAtMostOnce ==
    capture.pc # "none" => capture.disconnects <= 1

\* C29 as stated: once s_disconnect is set while the worker is connected,
\* main leaves the polling loop having called worker.Disconnect() exactly
\* once and having reset the flag, and the trace is saved to the output.
C29_FlagDisconnectsAndSaves ==
    /\ []DisconnectAtMostOnce
    /\ FlagSetWhileConnected ~>
          (/\ capture.pc = "exit"
           /\ capture.disconnects = 1
           /\ capture.file = "trace")

\* a step of main that sees the flag in a connected worker goes on to
\* worker.Disconnect(), then to the reset of the flag, then out of the loop
FlagSeenDisconnects ==
    /\ (capture.pc = "checkFlag" /\ capture.s_disconnect /\ capture'.pc # "checkFlag")
          => capture'.pc = "disconnect"
    /\ (capture.pc = "disconnect" /\ capture'.pc # "disconnect")
          => (capture'.pc = "reset" /\ capture'.disconnects = capture.disconnects + 1)
    /\ (capture.pc = "reset" /\ capture'.pc # "reset")
          => (capture'.pc = "save" /\ ~capture'.s_disconnect)
    /\ capture'.disconnects # capture.disconnects => capture.pc = "disconnect"

\* C29 (amended): worker.Disconnect() is called at most once; a look at the
\* flag that finds it set is followed by the call, the reset of the flag and
\* the end of the loop; once the flag is set while the worker is connected
\* main ends with status 0, with the trace written when the output opened.
C29_FlagEndsPolling ==
    /\ []DisconnectAtMostOnce
    /\ [][FlagSeenDisconnects]_vars
    /\ FlagSetWhileConnected ~>
          (/\ capture.pc = "exit"
           /\ capture.status = 0
           /\ capture.disconnects <= 1
           /\ capture.saved => capture.file = "trace")

C29_Witness ==
    /\ capture.pc = "exit"
    /\ capture.signalled
    /\ capture.disconnects = 1
    /\ ~capture.s_disconnect
    /\ capture.file = "trace"

\* ---- C30 ----
ConnectionAttempted ==
    capture.pc # "none" /\ capture.handshake # "None"

OutputUntouched ==
    /\ capture.file = (IF capture.args.existed THEN "old" ELSE "absent")
    /\ ~capture.opened

\* C30: an existing output without -f is never opened and the run ends
\* before any connection, with status 4 (with status 1, from Usage, when
\* getopt rejects the command line); with -A the output path is never touched
\* and no connection is made; the output is test-opened and unlinked before
\* the connection is attempted, so a run that ends in a handshake error
\* (status 1, 2 or 3 after the connection was attempted) leaves no file.
\* (Fails where unlink fails: the file emptied by the test-open stays.)
C30_OutputFileHandling ==
    /\ (capture.pc # "none" /\ capture.args.analyzeInput)
          => (OutputUntouched /\ ~ConnectionAttempted)
    /\ (capture.pc # "none" /\ ~capture.args.analyzeInput /\ capture.args.output
           /\ capture.args.existed /\ ~capture.args.overwrite)
          => /\ OutputUntouched
             /\ ~ConnectionAttempted
             /\ capture.pc = "exit"
                   => capture.status = (IF capture.args.rejected THEN 1 ELSE 4)
    /\ (capture.pc # "none" /\ capture.status = 4)
          => (capture.file = "old" /\ ~capture.opened /\ ~capture.args.overwrite)
    /\ (ConnectionAttempted /\ capture.pc = "handshake")
          => (capture.opened /\ capture.file = "absent")
    /\ (ConnectionAttempted /\ capture.pc = "exit" /\ capture.status \in {1, 2, 3})
          => (capture.opened /\ capture.file = "absent")

====
